---- MODULE Spec2Model ----
(***************************************************************************)
(* Extraction pipeline of the insight-english-apps generators (V3..V6):    *)
(* find_answer_part, the line parsers parse_lines_v3, parse_chapter_text   *)
(* (V4), parse_chapter_text_v5, the docx extractor of V6 and the batch     *)
(* loop of main (V5, V6).                                                  *)
(*                                                                         *)
(* A Python str is a sequence of one-character strings.  Characters that   *)
(* are not ASCII are written by code point ("U+82B1").  Python indices     *)
(* are 0-based; slice(s, a, b) is s[a:b].  An optional value (None or a    *)
(* str) is a sequence of length 0 or 1.                                    *)
(***************************************************************************)
EXTENDS Integers, Sequences, FiniteSets, TLC

VARIABLES
  pc,             \* position of the running function
  question,       \* find_answer_part: argument question
  full_sentence,  \* find_answer_part: argument full_sentence
  result,         \* find_answer_part: returned value (None or Some(str))
  nread,          \* number of input lines consumed so far
  current_item,   \* V3, V4: the open block
  state,          \* V4: state of the line state machine
  pre_id_buffer,  \* V4: look-back buffer
  items,          \* the list of items built so far / returned
  sealed,         \* V4: the blocks sealed so far, as they were when sealed
  japanese_buffer,\* V3: floating Japanese lines
  final_items,    \* V3: the list returned
  completed,      \* V3: identifiers of the items that had a filled sentence
  blocks,         \* V5: the list of sealed blocks; V6: paragraphs by identifier
  current_block,  \* V5: the open block
  answers,        \* V5: filled sentence by identifier
  questions,      \* V5: question lines by identifier
  explanations,   \* V5: explanation by identifier
  current_id,     \* V6: identifier of the block being filled (None or Some(id))
  consumed,       \* history: the input lines consumed so far (V5, V4 example)
  line_arg,       \* classify_line: argument line
  classified,     \* classify_line: returned kind and data (None before the call)
  script,         \* main: the generator that runs ("v5", "v6"; "" when none)
  files,          \* main: the list of source files
  file_idx,       \* main: number of files the loop has finished
  generated_links,\* main: the links collected for the index
  written,        \* main: the sources written to each output file, in order
  index_html,     \* main: the links of the written index (None before)
  failed          \* main: the files whose extraction failed

vars == <<pc, question, full_sentence, result, nread, current_item, state,
          pre_id_buffer, items, sealed, japanese_buffer, final_items,
          completed, blocks, current_block, answers, questions, explanations,
          current_id, consumed, line_arg, classified, script, files,
          file_idx, generated_links, written, index_html, failed>>

batchVars == <<script, files, file_idx, generated_links, written, index_html,
               failed>>
findVars == <<question, full_sentence, result>>
classifyVars == <<line_arg, classified>>
v5Vars == <<blocks, current_block, answers, questions, explanations>>
v3Vars == <<japanese_buffer, final_items, completed>>
v4Vars == <<state, pre_id_buffer, sealed>>
parserVars == <<nread, current_item, items, v4Vars, v3Vars, v5Vars,
                current_id, consumed>>

-----------------------------------------------------------------------------
(* Characters *)

Whitespace == {" ", "\t"}
Digits == {"0", "1", "2", "3", "4", "5", "6", "7", "8", "9"}
OpenParens == {"(", "U+FF08"}
CloseParens == {")", "U+FF09"}
Hiragana == {"U+306F", "U+3092", "U+3084", "U+308B", "U+304C", "U+3042"}
Katakana == {"U+30C8", "U+30FB"}
CJK == {"U+82B1", "U+6C34", "U+57FA", "U+672C", "U+767A", "U+5C55",
        "U+6BCE", "U+65E5", "U+5FC5", "U+8981"}

None == << >>
Some(s) == <<s>>
IsNone(o) == o = << >>

-----------------------------------------------------------------------------
(* Python str operations *)

RECURSIVE lstrip(_)
lstrip(s) ==
  IF s # << >> /\ Head(s) \in Whitespace THEN lstrip(Tail(s)) ELSE s

RECURSIVE rstrip(_)
rstrip(s) ==
  IF s # << >> /\ s[Len(s)] \in Whitespace
    THEN rstrip(SubSeq(s, 1, Len(s) - 1))
    ELSE s

strip(s) == rstrip(lstrip(s))

\* re.sub(r'\s+', ' ', s)
RECURSIVE collapse_ws(_)
collapse_ws(s) ==
  IF s = << >> THEN << >>
  ELSE IF Head(s) \in Whitespace THEN <<" ">> \o collapse_ws(lstrip(s))
  ELSE <<Head(s)>> \o collapse_ws(Tail(s))

\* re.sub(r'\s+', ' ', s).strip()
normalize(s) == strip(collapse_ws(s))

\* s[a:b] for 0 <= a and 0 <= b <= len(s); empty when a >= b
slice(s, a, b) == IF a >= b THEN << >> ELSE SubSeq(s, a + 1, b)

\* s[i:].startswith(sub)
match_at(s, sub, i) ==
  /\ i + Len(sub) <= Len(s)
  /\ \A k \in 1..Len(sub) : s[i + k] = sub[k]

\* s.find(sub): scan from the left
RECURSIVE find_from(_, _, _)
find_from(s, sub, i) ==
  IF i + Len(sub) > Len(s) THEN -1
  ELSE IF match_at(s, sub, i) THEN i
  ELSE find_from(s, sub, i + 1)

str_find(s, sub) == find_from(s, sub, 0)

\* s.rfind(sub): scan from the right
RECURSIVE rfind_from(_, _, _)
rfind_from(s, sub, i) ==
  IF i < 0 THEN -1
  ELSE IF match_at(s, sub, i) THEN i
  ELSE rfind_from(s, sub, i - 1)

str_rfind(s, sub) == rfind_from(s, sub, Len(s) - Len(sub))

\* sub in s
contains(s, sub) == str_find(s, sub) # -1

\* s.replace(old, new): every non-overlapping occurrence, left to right
RECURSIVE str_replace(_, _, _)
str_replace(s, old, new) ==
  IF old = << >> \/ Len(s) < Len(old) THEN s
  ELSE IF match_at(s, old, 0)
    THEN new \o str_replace(SubSeq(s, Len(old) + 1, Len(s)), old, new)
    ELSE <<Head(s)>> \o str_replace(Tail(s), old, new)

\* index of the first / last character of s that is in chars, or -1
RECURSIVE first_in(_, _, _)
first_in(s, chars, i) ==
  IF i >= Len(s) THEN -1
  ELSE IF s[i + 1] \in chars THEN i
  ELSE first_in(s, chars, i + 1)

RECURSIVE last_in(_, _, _)
last_in(s, chars, i) ==
  IF i < 0 THEN -1
  ELSE IF s[i + 1] \in chars THEN i
  ELSE last_in(s, chars, i - 1)

\* " ".join(lines) and "\n".join(lines)
RECURSIVE join(_, _)
join(sep, lines) ==
  IF lines = << >> THEN << >>
  ELSE IF Len(lines) = 1 THEN lines[1]
  ELSE lines[1] \o sep \o join(sep, Tail(lines))

is_japanese(text) ==
  \E i \in 1..Len(text) : text[i] \in Hiragana \cup Katakana \cup CJK

-----------------------------------------------------------------------------
(* find_answer_part, V4 (the same algorithm as V2 and V3) *)

\* start_idx: the end of the first occurrence of prefix in f, else 0
start_idx_v4(f, prefix) ==
  IF prefix # << >> /\ str_find(f, prefix) # -1
    THEN str_find(f, prefix) + Len(prefix)
    ELSE 0

\* an end_idx that takes the first occurrence of suffix
end_idx_v4_first(f, suffix) ==
  IF suffix # << >> /\ str_find(f, suffix) # -1
    THEN str_find(f, suffix)
    ELSE Len(f)

\* end_idx: the start of the last occurrence of suffix in f, else len(f)
end_idx_v4(f, suffix) ==
  IF suffix # << >> /\ str_rfind(f, suffix) # -1
    THEN str_rfind(f, suffix)
    ELSE Len(f)

\* the text of q after its last closing parenthesis
suffix_v4(q) ==
  LET last_paren_index == last_in(q, CloseParens, Len(q) - 1)
  IN  IF last_paren_index # -1
        THEN strip(slice(q, last_paren_index + 1, Len(q)))
        ELSE << >>

\* find_answer_part on the normalized question q and sentence f
answer_between_parens(q, f) ==
  LET start_match == first_in(q, OpenParens, 0)
  IN  IF start_match = -1 THEN None
      ELSE Some(strip(slice(f,
                  start_idx_v4(f, strip(slice(q, 0, start_match))),
                  end_idx_v4(f, suffix_v4(q)))))

find_answer_part_v4(q0, f0) == answer_between_parens(normalize(q0), normalize(f0))

-----------------------------------------------------------------------------
(* find_answer_part, V5 *)

\* length of the longest common prefix of a and b
RECURSIVE common_prefix_len(_, _, _)
common_prefix_len(a, b, i) ==
  IF i < Len(a) /\ i < Len(b) /\ a[i + 1] = b[i + 1]
    THEN common_prefix_len(a, b, i + 1)
    ELSE i

\* length of the longest common suffix of a and b
RECURSIVE common_suffix_len(_, _, _)
common_suffix_len(a, b, i) ==
  IF i < Len(a) /\ i < Len(b) /\ a[Len(a) - i] = b[Len(b) - i]
    THEN common_suffix_len(a, b, i + 1)
    ELSE i

\* end of the run of underscores that starts at i
RECURSIVE underscore_end(_, _)
underscore_end(s, i) ==
  IF i < Len(s) /\ s[i + 1] = "_" THEN underscore_end(s, i + 1) ELSE i

\* the anchors' slice of f: after the first prefix, before the last suffix
anchor_slice(f, prefix, suffix) ==
  LET start_idx == IF prefix # << >> /\ str_find(f, prefix) # -1
                     THEN str_find(f, prefix) + Len(prefix)
                     ELSE 0
      end_idx == IF suffix # << >> /\ str_rfind(f, suffix) # -1
                   THEN str_rfind(f, suffix)
                   ELSE Len(f)
  IN  strip(slice(f, start_idx, end_idx))

\* a fallback that does not ask for a common prefix or suffix
diff_fallback_unguarded(q, f) ==
  LET cpl == common_prefix_len(q, f, 0)
      csl == common_suffix_len(q, f, 0)
  IN  IF cpl + csl < Len(f)
        THEN Some(strip(slice(f, cpl, Len(f) - csl)))
        ELSE None

\* the diff-based fallback on the normalized strings
diff_fallback(q, f) ==
  LET cpl == common_prefix_len(q, f, 0)
      csl == common_suffix_len(q, f, 0)
  IN  IF (cpl > 0 \/ csl > 0) /\ cpl + csl < Len(f)
        THEN Some(strip(slice(f, cpl, Len(f) - csl)))
        ELSE None

\* the suffix of the parenthesis branch: re.search(r'[\)）](.*)$', rest)
paren_suffix_v5(q, start_match) ==
  LET rest == slice(q, start_match, Len(q))
      end_match == first_in(rest, CloseParens, 0)
  IN  IF end_match # -1
        THEN strip(slice(rest, end_match + 1, Len(rest)))
        ELSE << >>

\* the parenthesis branch: the anchors' slice without ASCII parentheses
paren_branch_v5(q, f, start_match) ==
  Some(strip(str_replace(
    str_replace(anchor_slice(f, strip(slice(q, 0, start_match)),
                             paren_suffix_v5(q, start_match)),
                <<"(">>, << >>),
    <<")">>, << >>)))

\* the underscore branch: re.search(r'_+', q)
underscore_branch_v5(q, f, underscore_match) ==
  Some(anchor_slice(f, strip(slice(q, 0, underscore_match)),
                    strip(slice(q, underscore_end(q, underscore_match), Len(q)))))

\* find_answer_part on the normalized question q and sentence f
find_in_normalized_v5(q, f) ==
  LET start_match == first_in(q, OpenParens, 0)
      underscore_match == first_in(q, {"_"}, 0)
  IN  IF start_match # -1 THEN paren_branch_v5(q, f, start_match)
      ELSE IF underscore_match # -1 THEN underscore_branch_v5(q, f, underscore_match)
      ELSE diff_fallback(q, f)

find_answer_part_v5(q0, f0) == find_in_normalized_v5(normalize(q0), normalize(f0))

-----------------------------------------------------------------------------
(* Inputs of find_answer_part *)

MaxQLen == 3
MaxFLen == 4

QChars == {"a", "b", " ", "(", ")"}
FChars == {"a", "b", " "}

Strings(chars, n) == UNION {[1..k -> chars] : k \in 0..n}

Q_Train ==
  <<"T","h","e"," ","t","r","a","i","n"," ","("," ",")"," ",
    "("," ",")"," ","("," ",")"," ","2","0"," ","m","i","n",
    "u","t","e","s"," ","l","a","t","e",".">>

F_Train ==
  <<"T","h","e"," ","t","r","a","i","n"," ","a","r","r","i",
    "v","e","d"," ","a","t"," ","T","o","k","y","o"," ","S",
    "t","a","t","i","o","n"," ","2","0"," ","m","i","n","u",
    "t","e","s"," ","l","a","t","e",".">>

A_Train ==
  <<"a","r","r","i","v","e","d"," ","a","t"," ","T","o","k",
    "y","o"," ","S","t","a","t","i","o","n">>

Q_Woman ==
  <<"T","h","e"," ","w","o","m","a","n"," ","s","o","m","e",
    " ","f","l","o","w","e","r","s",".">>

F_Woman ==
  <<"T","h","e"," ","w","o","m","a","n"," ","i","s"," ","w",
    "a","t","e","r","i","n","g"," ","s","o","m","e"," ","f",
    "l","o","w","e","r","s",".">>

A_Woman ==
  <<"i","s"," ","w","a","t","e","r","i","n","g">>

Q_Flowers ==
  <<"F","l","o","w","e","r","s"," ","n","e","e","d"," ","(",
    " ",")"," ","("," ",")"," ","e","v","e","r","y"," ","d",
    "a","y",".">>

F_Flowers ==
  <<"F","l","o","w","e","r","s"," ","n","e","e","d"," ","t",
    "o"," ","b","e"," ","w","a","t","e","r","e","d"," ","e",
    "v","e","r","y"," ","d","a","y",".">>

Q_Under ==
  <<"I"," ","_","_","_"," ","i","t",".">>

F_Under ==
  <<"I"," ","l","i","k","e"," ","i","t",".">>

Q_Inverted ==
  <<"a"," ","("," ",")"," ","a">>

F_Inverted ==
  <<"b"," ","a"," ","a">>

Q_Wide ==
  <<"a"," ","U+FF08"," ","U+FF09"," ","U+FF08"," ","U+FF09"," ","b">>

F_Wide ==
  <<"a"," ","b"," "," ","a"," ","b">>

ExampleQuestions == {Q_Train, Q_Woman, Q_Flowers, Q_Under, Q_Inverted, Q_Wide}
ExampleSentences == {F_Train, F_Woman, F_Flowers, F_Under, F_Inverted, F_Wide}

Questions == Strings(QChars, MaxQLen) \cup ExampleQuestions
Sentences == Strings(FChars, MaxFLen) \cup ExampleSentences

-----------------------------------------------------------------------------
(* find_answer_part applied to one pair of arguments *)

NoItem ==
  [id |-> << >>, ja |-> << >>, question |-> << >>, en_full |-> << >>,
   explanation_lines |-> << >>]

\* the identifiers of a list of blocks or items
ItemIds(its) == [i \in 1..Len(its) |-> its[i].id]

NoBlock == [id |-> << >>, lines |-> << >>]

\* a dict with no key
EmptyDict == [k \in {} |-> << >>]

V5Idle ==
  /\ blocks = << >>
  /\ current_block = NoBlock
  /\ answers = EmptyDict
  /\ questions = EmptyDict
  /\ explanations = EmptyDict
  /\ current_id = None

ParserIdle ==
  /\ nread = 0
  /\ current_item = NoItem
  /\ state = "FIND_ID"
  /\ pre_id_buffer = << >>
  /\ items = << >>
  /\ sealed = << >>
  /\ japanese_buffer = << >>
  /\ final_items = << >>
  /\ completed = {}
  /\ consumed = << >>
  /\ V5Idle

FindIdle ==
  /\ question = << >>
  /\ full_sentence = << >>
  /\ result = None

ClassifyIdle ==
  /\ line_arg = << >>
  /\ classified = None

BatchIdle ==
  /\ script = ""
  /\ files = << >>
  /\ file_idx = 0
  /\ generated_links = << >>
  /\ written = EmptyDict
  /\ index_html = None
  /\ failed = {}

FindInit ==
  /\ pc = "call"
  /\ question \in Questions
  /\ full_sentence \in Sentences
  /\ result = None
  /\ ClassifyIdle
  /\ BatchIdle
  /\ ParserIdle

CallV4 ==
  /\ pc = "call"
  /\ result' = find_answer_part_v4(question, full_sentence)
  /\ pc' = "v4_returned"
  /\ UNCHANGED <<question, full_sentence, classifyVars, batchVars, parserVars>>

CallV5 ==
  /\ pc = "call"
  /\ result' = find_answer_part_v5(question, full_sentence)
  /\ pc' = "v5_returned"
  /\ UNCHANGED <<question, full_sentence, classifyVars, batchVars, parserVars>>

FindNext == CallV4 \/ CallV5

FindSpec == FindInit /\ [][FindNext]_vars

\* find_answer_part on filled sentences that hold parentheses themselves
ParenChars == {"a", " ", "(", ")"}

FindParensInit ==
  /\ pc = "call"
  /\ question \in Questions
  /\ full_sentence \in Strings(ParenChars, MaxFLen)
  /\ result = None
  /\ ClassifyIdle
  /\ BatchIdle
  /\ ParserIdle

FindParensSpec == FindParensInit /\ [][FindNext]_vars

-----------------------------------------------------------------------------
(* Input lines of the line parsers *)

MaxLines == 4

L_Id1 ==
  <<"1">>

L_Id2 ==
  <<"2","-","1">>

L_Id1Answer ==
  <<"1"," ","a"," ","b"," ","a"," ","b">>

L_Id1Japanese ==
  <<"1"," ","U+82B1">>

L_Question ==
  <<"a"," ","("," ",")"," ","a"," ","b">>

L_English ==
  <<"a"," ","b"," ","a"," ","b">>

L_Japanese ==
  <<"U+82B1","U+306F">>

L_Tip ==
  <<"T","i","p"," ","1">>

L_Words ==
  <<"W","o","r","d","s"," ","t","o"," ","U","s","e">>

L_Blank ==
  <<" ">>

L_Short ==
  <<"a","b">>

L_LongNumber ==
  <<"1","2","3","4","5","6"," ","a">>

L_FCode ==
  <<"F"," ","1","2">>

V4Lines ==
  {L_Id1, L_Id2, L_Id1Answer, L_Id1Japanese, L_Question, L_English,
   L_Japanese, L_Tip, L_Words, L_Blank, L_Short, L_LongNumber, L_FCode}

-----------------------------------------------------------------------------
(* Leading identifier of a line: ^(\d+(-\d+)?) *)

\* number of consecutive digits of s from index i
RECURSIVE digits_len(_, _)
digits_len(s, i) ==
  IF i < Len(s) /\ s[i + 1] \in Digits THEN 1 + digits_len(s, i + 1) ELSE 0

\* length of the match of (\d+(-\d+)?) at the start of s; 0 when none
id_len(s) ==
  LET n == digits_len(s, 0)
  IN  IF n = 0 THEN 0
      ELSE IF n < Len(s) /\ s[n + 1] = "-" /\ digits_len(s, n + 1) > 0
        THEN n + 1 + digits_len(s, n + 1)
        ELSE n

startswith(s, pre) == match_at(s, pre, 0)

\* re.match(r'^F\s*\d+', s)
is_f_code(s) ==
  /\ s # << >>
  /\ s[1] = "F"
  /\ LET body == lstrip(Tail(s))
     IN  body # << >> /\ body[1] \in Digits

S_Tip == <<"T", "i", "p">>
S_WordsToUse == <<"W", "o", "r", "d", "s", " ", "t", "o", " ", "U", "s", "e">>
S_Kihon == <<"U+57FA", "U+672C">>
S_Unknown == <<"?", "?", "?">>

select_japanese(lines) == SelectSeq(lines, is_japanese)

braced(s) == <<"{">> \o s \o <<"}">>

-----------------------------------------------------------------------------
(* V4: parse_chapter_text *)

IdMaxLen == 6
RestMinLen == 5
LineMinLen == 2

\* ans and ans in f
answer_found(f, ans) == ~IsNone(ans) /\ ans[1] # << >> /\ contains(f, ans[1])

\* the Japanese of the item, taken from the buffer when the item has none
ja_or_buffer(ja, buffer) ==
  IF ja = << >> /\ buffer # << >> /\ select_japanese(buffer) # << >>
    THEN join(<<" ">>, select_japanese(buffer))
    ELSE ja

\* the record save_current appends, ans being find_answer_part(q, f)
cleanup(item, buffer, ans) ==
  [id |-> item.id,
   ja |-> ja_or_buffer(item.ja, buffer),
   en |-> IF answer_found(item.en_full, ans)
            THEN str_replace(item.en_full, ans[1], braced(ans[1]))
            ELSE item.en_full,
   answer |-> IF answer_found(item.en_full, ans) THEN ans[1] ELSE S_Unknown,
   explanation |-> strip(join(<<"\n">>, item.explanation_lines))]

\* save_current without the test for a filled sentence
save_current_unguarded(item, buffer, its) ==
  Append(its, cleanup(item, buffer,
                      find_answer_part_v4(item.question, item.en_full)))

\* save_current: the item appended for the open block, if any
save_current(item, buffer, its) ==
  IF item.id # << >> /\ item.en_full # << >>
    THEN Append(its, cleanup(item, buffer,
                             find_answer_part_v4(item.question, item.en_full)))
    ELSE its

\* ja_candidates that keeps only the last native-script line
ja_candidates_last(buffer) ==
  LET all == SelectSeq(buffer, LAMBDA l : is_japanese(l) /\ ~startswith(l, S_Tip))
  IN  IF all = << >> THEN << >> ELSE <<all[Len(all)]>>

\* the Japanese of the look-back buffer, attached to a new block
ja_candidates(buffer) ==
  SelectSeq(buffer, LAMBDA l : is_japanese(l) /\ ~startswith(l, S_Tip))

\* V4IdLine whose repeated identifier always starts the seek, whatever follows
V4IdLine_seek_always(st, matched_id, rest) ==
  IF st.current_item # NoItem /\ st.current_item.id = matched_id
    THEN [st EXCEPT !.state = "POST_ID_SEARCH", !.pre_id_buffer = << >>]
    ELSE [st EXCEPT
            !.items = IF st.current_item # NoItem
                        THEN save_current(st.current_item, st.pre_id_buffer, @)
                        ELSE @,
            !.sealed = IF st.current_item # NoItem
                         THEN Append(@, st.current_item)
                         ELSE @,
            !.current_item =
               [NoItem EXCEPT
                  !.id = matched_id,
                  !.ja = IF ja_candidates(st.pre_id_buffer) # << >>
                           THEN join(<<" ">>, ja_candidates(st.pre_id_buffer))
                           ELSE << >>],
            !.pre_id_buffer = << >>,
            !.state = "JAPANESE"]

\* an identifier line that always opens a block and takes its own text as
\* the filled sentence
V4IdLine_first_sentence(st, matched_id, rest) ==
  [st EXCEPT
     !.items = IF st.current_item # NoItem
                 THEN save_current(st.current_item, st.pre_id_buffer, @)
                 ELSE @,
     !.sealed = IF st.current_item # NoItem THEN Append(@, st.current_item)
                ELSE @,
     !.current_item = [NoItem EXCEPT !.id = matched_id, !.en_full = rest],
     !.pre_id_buffer = << >>,
     !.state = "EXPLANATION"]

\* a line that starts with an identifier of fewer than 6 characters
V4IdLine(st, matched_id, rest) ==
  IF st.current_item # NoItem /\ st.current_item.id = matched_id
    THEN \* the repeated identifier: the answer line
         IF Len(rest) > RestMinLen /\ ~is_japanese(rest)
           THEN [st EXCEPT !.current_item.en_full = rest,
                           !.state = "EXPLANATION",
                           !.pre_id_buffer = << >>]
           ELSE [st EXCEPT !.state = "POST_ID_SEARCH",
                           !.pre_id_buffer = << >>]
    ELSE \* a new item: seal the open one
         [st EXCEPT
            !.items = IF st.current_item # NoItem
                        THEN save_current(st.current_item, st.pre_id_buffer, @)
                        ELSE @,
            !.sealed = IF st.current_item # NoItem
                         THEN Append(@, st.current_item)
                         ELSE @,
            !.current_item =
               [NoItem EXCEPT
                  !.id = matched_id,
                  !.ja = IF ja_candidates(st.pre_id_buffer) # << >>
                           THEN join(<<" ">>, ja_candidates(st.pre_id_buffer))
                           ELSE << >>],
            !.pre_id_buffer = << >>,
            !.state = "JAPANESE"]

\* a line that is no identifier line
V4ContentLine(st, line) ==
  IF st.current_item = NoItem
    THEN [st EXCEPT !.pre_id_buffer = Append(@, line)]
  ELSE IF st.state = "JAPANESE"
    THEN IF startswith(line, S_WordsToUse) \/ line = S_Kihon THEN st
         ELSE IF is_japanese(line)
           THEN [st EXCEPT !.current_item.ja =
                   IF @ # << >> THEN @ \o <<" ">> \o line ELSE line]
         ELSE IF \E i \in 1..Len(line) : line[i] \in {"(", "U+FF08"}
           THEN [st EXCEPT !.current_item.question = line,
                           !.state = "WAITING_FOR_FULL_SENTENCE"]
         ELSE [st EXCEPT !.pre_id_buffer = Append(@, line)]
  ELSE IF st.state = "WAITING_FOR_FULL_SENTENCE"
    THEN [st EXCEPT !.pre_id_buffer = Append(@, line)]
  ELSE IF st.state = "POST_ID_SEARCH"
    THEN IF is_f_code(line) \/ startswith(line, S_Tip) THEN st
         ELSE IF is_japanese(line)
           THEN [st EXCEPT !.pre_id_buffer = Append(@, line)]
         ELSE IF Len(line) > LineMinLen
           THEN [st EXCEPT !.current_item.en_full = line,
                           !.state = "EXPLANATION"]
         ELSE st
  ELSE IF st.state = "EXPLANATION"
    THEN IF line = S_WordsToUse
           THEN [st EXCEPT !.pre_id_buffer = << >>]
           ELSE [st EXCEPT !.current_item.explanation_lines = Append(@, line),
                           !.pre_id_buffer = Append(@, line)]
  ELSE st

\* one iteration of the loop over the lines
V4Process(st, raw) ==
  LET line == strip(raw)
      n == id_len(line)
      is_id_line == n > 0 /\ n < IdMaxLen
  IN  IF line = << >> THEN st
      ELSE IF is_id_line
        THEN V4IdLine(st, strip(slice(line, 0, n)), strip(slice(line, n, Len(line))))
        ELSE V4ContentLine(st, line)

V4State ==
  [current_item |-> current_item, state |-> state,
   pre_id_buffer |-> pre_id_buffer, items |-> items, sealed |-> sealed]

V4Init ==
  /\ pc = "v4_lines"
  /\ ParserIdle
  /\ FindIdle
  /\ ClassifyIdle
  /\ BatchIdle

V4Line(raw) ==
  /\ pc = "v4_lines"
  /\ nread < MaxLines
  /\ \E st \in {V4Process(V4State, raw)} :
         /\ current_item' = st.current_item
         /\ state' = st.state
         /\ pre_id_buffer' = st.pre_id_buffer
         /\ items' = st.items
         /\ sealed' = st.sealed
  /\ nread' = nread + 1
  /\ UNCHANGED <<pc, findVars, classifyVars, batchVars, v3Vars, v5Vars, current_id, consumed>>

\* end of input: seal the open block and return items
V4End ==
  /\ pc = "v4_lines"
  /\ pc' = "v4_done"
  /\ items' = IF current_item # NoItem
                THEN save_current(current_item, pre_id_buffer, items)
                ELSE items
  /\ sealed' = IF current_item # NoItem THEN Append(sealed, current_item) ELSE sealed
  /\ UNCHANGED <<nread, current_item, state, pre_id_buffer, findVars, classifyVars, batchVars, v3Vars, v5Vars,
                 current_id, consumed>>

V4Next == (\E raw \in V4Lines : V4Line(raw)) \/ V4End

V4Spec == V4Init /\ [][V4Next]_vars

-----------------------------------------------------------------------------
(* V4: parse_chapter_text on the lines of the look-back example *)

MaxExampleLines == 5

X_Native ==
  <<"U+82B1","U+306F","U+6BCE","U+65E5","U+6C34","U+3092","U+3084","U+308B","U+5FC5","U+8981","U+304C","U+3042","U+308B","U+3002">>

X_Id15 ==
  <<"1","5">>

X_Question ==
  <<"F","l","o","w","e","r","s"," ","n","e","e","d"," ","(",
    " ",")"," ","("," ",")"," ","e","v","e","r","y"," ","d",
    "a","y",".">>

X_Sentence ==
  <<"F","l","o","w","e","r","s"," ","n","e","e","d"," ","t",
    "o"," ","b","e"," ","w","a","t","e","r","e","d"," ","e",
    "v","e","r","y"," ","d","a","y",".">>

X_Wrapped ==
  <<"F","l","o","w","e","r","s"," ","n","e","e","d"," ","{",
    "t","o"," ","b","e"," ","w","a","t","e","r","e","d","}",
    " ","e","v","e","r","y"," ","d","a","y",".">>

X_Answer ==
  <<"t","o"," ","b","e"," ","w","a","t","e","r","e","d">>

ExampleInput == <<X_Native, X_Id15, X_Question, X_Id15, X_Sentence>>

ExampleLines == {X_Native, X_Id15, X_Question, X_Sentence, L_Japanese}

\* one iteration of the loop over the lines, the line recorded in consumed
\* a loop step that advances past two lines and processes one
V4RecordedLine_skip(raw, max_lines) ==
  /\ pc = "v4_lines"
  /\ nread < max_lines
  /\ \E st \in {V4Process(V4State, raw)} :
         /\ current_item' = st.current_item
         /\ state' = st.state
         /\ pre_id_buffer' = st.pre_id_buffer
         /\ items' = st.items
         /\ sealed' = st.sealed
  /\ nread' = nread + 2
  /\ consumed' = Append(consumed, raw)
  /\ UNCHANGED <<pc, findVars, classifyVars, batchVars, v3Vars, v5Vars, current_id>>

V4RecordedLine(raw, max_lines) ==
  /\ pc = "v4_lines"
  /\ nread < max_lines
  /\ \E st \in {V4Process(V4State, raw)} :
         /\ current_item' = st.current_item
         /\ state' = st.state
         /\ pre_id_buffer' = st.pre_id_buffer
         /\ items' = st.items
         /\ sealed' = st.sealed
  /\ nread' = nread + 1
  /\ consumed' = Append(consumed, raw)
  /\ UNCHANGED <<pc, findVars, classifyVars, batchVars, v3Vars, v5Vars, current_id>>

\* one line of the example's alphabet
V4ExampleLine(raw) == V4RecordedLine(raw, MaxExampleLines)

LookBackNext == (\E raw \in ExampleLines : V4ExampleLine(raw)) \/ V4End

LookBackSpec == V4Init /\ [][LookBackNext]_vars

-----------------------------------------------------------------------------
(* V4: parse_chapter_text around a repeated header, the lines recorded *)

MaxSeekLines == 4

SeekLines ==
  {L_Id1, L_Id2, L_Id1Answer, L_Id1Japanese, L_English, L_Japanese, L_Tip,
   L_FCode, L_Short, L_Blank}

V4SeekLine(raw) == V4RecordedLine(raw, MaxSeekLines)

SeekNext == (\E raw \in SeekLines : V4SeekLine(raw)) \/ V4End

SeekSpec == V4Init /\ [][SeekNext]_vars

\* the pass over the lines, each step of the loop eventually taken: the for
\* loop and the return are not interrupted
PassLines ==
  {L_Id1, L_Id2, L_Id1Answer, L_English, L_Japanese, L_LongNumber}

V4PassNext == (\E raw \in PassLines : V4SeekLine(raw)) \/ V4End

V4PassSpec == V4Init /\ [][V4PassNext]_vars /\ WF_vars(V4PassNext)

\* lines whose filled sentence holds a run of two blanks between words
L_Id1Wide ==
  <<"1"," ","a"," ","b"," "," ","b"," ","a"," ","b">>

WideLines ==
  {L_Id1, L_Id2, L_Question, L_Id1Answer, L_Id1Wide, L_English, L_Japanese}

V4WideNext == (\E raw \in WideLines : V4SeekLine(raw)) \/ V4End

V4WideSpec == V4Init /\ [][V4WideNext]_vars

-----------------------------------------------------------------------------
(* V3: classify_line *)

AsciiLetters ==
  {"a", "b", "c", "d", "e", "f", "g", "h", "i", "j", "k", "l", "m",
   "n", "o", "p", "q", "r", "s", "t", "u", "v", "w", "x", "y", "z",
   "A", "B", "C", "D", "E", "F", "G", "H", "I", "J", "K", "L", "M",
   "N", "O", "P", "Q", "R", "S", "T", "U", "V", "W", "X", "Y", "Z"}

S_Chapter == <<"c", "h", "a", "p", "t", "e", "r">>
S_Pending == <<"P", "E", "N", "D", "I", "N", "G">>

\* V3's is_japanese looks for HIRAGANA and CJK only
is_japanese_v3(text) ==
  \E i \in 1..Len(text) : text[i] \in Hiragana \cup CJK

\* s.lower() on the ASCII letters of "Chapter"
lower(c) ==
  CASE c = "C" -> "c" [] c = "H" -> "h" [] c = "A" -> "a" [] c = "P" -> "p"
    [] c = "T" -> "t" [] c = "E" -> "e" [] c = "R" -> "r" [] OTHER -> c

\* re.match(r'^Chapter\s*\d+', s, re.IGNORECASE)
is_chapter_header(s) ==
  /\ Len(s) > Len(S_Chapter)
  /\ \A k \in 1..Len(S_Chapter) : lower(s[k]) = S_Chapter[k]
  /\ LET body == lstrip(SubSeq(s, Len(S_Chapter) + 1, Len(s)))
     IN  body # << >> /\ body[1] \in Digits

\* re.match(r'^(-\d+)(?:＝)?$', s)
is_sub_index_only(s) ==
  /\ s # << >>
  /\ s[1] = "-"
  /\ LET n == digits_len(s, 1)
     IN  /\ n > 0
         /\ \/ Len(s) = 1 + n
            \/ Len(s) = 2 + n /\ s[Len(s)] = "U+FF1D"

\* s.split('＝')[0]
before_equals(s) ==
  LET i == first_in(s, {"U+FF1D"}, 0)
  IN  IF i = -1 THEN s ELSE slice(s, 0, i)

\* number of whitespace characters of s from index i
RECURSIVE ws_len(_, _)
ws_len(s, i) ==
  IF i < Len(s) /\ s[i + 1] \in Whitespace THEN 1 + ws_len(s, i + 1) ELSE 0

\* re.search(r'[\(（]\s*[\)）]', s)
has_empty_parens(s) ==
  \E i \in 0..(Len(s) - 1) :
    /\ s[i + 1] \in OpenParens
    /\ LET j == i + 1 + ws_len(s, i + 1)
       IN  \E k \in (i + 1)..j : k < Len(s) /\ s[k + 1] \in CloseParens

\* group 2 of ^(\d+(?:-\d+)?)\s+([^a-zA-Z].*)$, or None
id_japanese_text(s) ==
  LET n == id_len(s)
      w == ws_len(s, n)
  IN  IF n = 0 \/ w = 0 \/ n + w >= Len(s) THEN None
      ELSE IF s[n + w + 1] \notin AsciiLetters
        THEN Some(slice(s, n + w, Len(s)))
      ELSE IF w >= 2 THEN Some(slice(s, n + w - 1, Len(s)))
      ELSE None

\* group 2 of ^(\d+(?:-\d+)?)\s+([a-zA-Z].*)$, or None
id_english_text(s) ==
  LET n == id_len(s)
      w == ws_len(s, n)
  IN  IF n = 0 \/ w = 0 \/ n + w >= Len(s) THEN None
      ELSE IF s[n + w + 1] \in AsciiLetters
        THEN Some(slice(s, n + w, Len(s)))
      ELSE None

classify_line(raw) ==
  LET line == strip(raw)
      n == id_len(line)
  IN  IF line = << >> THEN [kind |-> "EMPTY", id |-> << >>, data |-> << >>]
      ELSE IF \/ startswith(line, S_Tip)
              \/ is_f_code(line)
              \/ startswith(line, S_WordsToUse)
              \/ line = S_Kihon
              \/ is_chapter_header(line)
        THEN [kind |-> "GARBAGE", id |-> << >>, data |-> << >>]
      ELSE IF (n > 0 /\ n = Len(line)) \/ is_sub_index_only(line)
        THEN [kind |-> "ID_ONLY", id |-> before_equals(line), data |-> << >>]
      ELSE IF ~IsNone(id_japanese_text(line))
              /\ is_japanese_v3(id_japanese_text(line)[1])
        THEN [kind |-> "ID_JAPANESE", id |-> slice(line, 0, n),
              data |-> id_japanese_text(line)[1]]
      ELSE IF ~IsNone(id_english_text(line))
        THEN [kind |-> "ID_ENGLISH", id |-> slice(line, 0, n),
              data |-> id_english_text(line)[1]]
      ELSE IF (\E i \in 1..Len(line) : line[i] \in OpenParens)
              /\ has_empty_parens(line)
        THEN [kind |-> "QUESTION_LINE", id |-> << >>, data |-> line]
      ELSE IF is_japanese_v3(line)
        THEN [kind |-> "JAPANESE_LINE", id |-> << >>, data |-> line]
      ELSE [kind |-> "ENGLISH_TEXT", id |-> << >>, data |-> line]

-----------------------------------------------------------------------------
(* V3: parse_lines_v3 *)

L_Sub1 ==
  <<"-","1">>

L_Sub1Eq ==
  <<"-","1","U+FF1D">>

L_Id2Answer ==
  <<"2"," ","a"," ","b"," ","a"," ","b">>

L_Id1JaLine ==
  <<"1"," ","U+82B1","U+306F">>

L_Chapter ==
  <<"C","h","a","p","t","e","r"," ","1">>

L_EmptyParens ==
  <<"a"," ","("," ",")"," ","a"," ","b">>

L_Id2Marks ==
  <<"2"," ","a","?","?","?">>

V3Lines ==
  {L_Id1, L_Id2, L_Sub1, L_Sub1Eq, L_Id1Answer, L_Id2Answer, L_Id1JaLine,
   L_EmptyParens, L_English, L_Japanese, L_Tip, L_Chapter, L_Blank,
   L_Id2Marks}

\* None is the item without an identifier
NoItem3 ==
  [id |-> << >>, ja |-> << >>, en_full |-> << >>, question |-> << >>,
   expl |-> << >>]

NewItem3(id, ja, en_full, q) ==
  [id |-> id, ja |-> ja, en_full |-> en_full, question |-> q, expl |-> << >>]

\* V3IdOnly that takes the marker itself as the identifier
V3IdOnly_raw(st, raw_id) ==
  [st EXCEPT !.items = IF st.current_item # NoItem3
                         THEN Append(st.items, st.current_item)
                         ELSE st.items,
             !.current_item = NewItem3(raw_id, << >>, << >>, << >>),
             !.japanese_buffer = << >>]

V3IdOnly(st, raw_id) ==
  LET its == IF st.current_item # NoItem3
               THEN Append(st.items, st.current_item)
               ELSE st.items
      full_id == IF raw_id[1] = "-" /\ its # << >>
                   THEN LET prev_id == its[Len(its)].id
                            dash == first_in(prev_id, {"-"}, 0)
                            base_id == IF dash = -1 THEN prev_id
                                       ELSE slice(prev_id, 0, dash)
                        IN  base_id \o raw_id
                   ELSE raw_id
  IN  [st EXCEPT !.items = its,
                 !.current_item = NewItem3(full_id, << >>, << >>, << >>),
                 !.japanese_buffer = << >>]

V3IdJapanese(st, id, text) ==
  [st EXCEPT !.items = IF st.current_item # NoItem3
                         THEN Append(@, st.current_item)
                         ELSE @,
             !.current_item = NewItem3(id, text, << >>, << >>),
             !.japanese_buffer = << >>]

V3JapaneseLine(st, data) ==
  LET cur == st.current_item
  IN  IF cur # NoItem3 /\ cur.question = << >>
        THEN [st EXCEPT !.current_item.ja =
                IF @ # << >> THEN @ \o <<" ">> \o data ELSE data]
      ELSE IF cur # NoItem3 /\ cur.en_full # << >>
        THEN [st EXCEPT !.current_item.expl = Append(@, data)]
      ELSE [st EXCEPT !.japanese_buffer = Append(@, data)]

V3QuestionLine(st, data) ==
  LET cur == st.current_item
  IN  IF cur # NoItem3 /\ cur.question = << >>
        THEN [st EXCEPT
                !.current_item.question = data,
                !.current_item.ja =
                   IF @ = << >> /\ st.japanese_buffer # << >>
                     THEN join(<<" ">>, st.japanese_buffer)
                     ELSE @,
                !.japanese_buffer =
                   IF cur.ja = << >> /\ @ # << >> THEN << >> ELSE @]
      \* orphan question: the open item, if any, already has a question
      ELSE IF cur = NoItem3 \/ cur.en_full # << >>
        THEN [st EXCEPT
                !.current_item =
                   NewItem3(S_Pending, join(<<" ">>, st.japanese_buffer),
                            << >>, data),
                !.japanese_buffer = << >>]
      ELSE st

V3IdEnglish(st, new_id, text) ==
  LET cur == st.current_item
  IN  IF cur # NoItem3 /\ cur.id = new_id
        THEN [st EXCEPT !.current_item.en_full = text,
                        !.japanese_buffer = << >>]
      ELSE IF cur # NoItem3 /\ cur.id = S_Pending
        THEN [st EXCEPT !.current_item.id = new_id,
                        !.current_item.en_full = text,
                        !.japanese_buffer = << >>]
      ELSE [st EXCEPT
              !.items = IF cur # NoItem3 THEN Append(@, cur) ELSE @,
              !.current_item = NewItem3(new_id, << >>, text, << >>),
              !.japanese_buffer = << >>]

V3EnglishText(st, data) ==
  IF st.current_item # NoItem3 /\ st.current_item.en_full # << >>
    THEN [st EXCEPT !.current_item.expl = Append(@, data)]
    ELSE st

\* one iteration of the loop over the lines
V3Process(st, raw) ==
  LET c == classify_line(raw)
  IN  CASE c.kind \in {"GARBAGE", "EMPTY"} -> st
        [] c.kind = "ID_ONLY" -> V3IdOnly(st, c.id)
        [] c.kind = "ID_JAPANESE" -> V3IdJapanese(st, c.id, c.data)
        [] c.kind = "JAPANESE_LINE" -> V3JapaneseLine(st, c.data)
        [] c.kind = "QUESTION_LINE" -> V3QuestionLine(st, c.data)
        [] c.kind = "ID_ENGLISH" -> V3IdEnglish(st, c.id, c.data)
        [] c.kind = "ENGLISH_TEXT" -> V3EnglishText(st, c.data)

\* V3's find_answer_part is, statement for statement, the one of V4
find_answer_part_v3(q0, f0) == find_answer_part_v4(q0, f0)

\* the record appended to final_items, ans being the answer computed for it
V3Record(item, ans) ==
  [id |-> item.id,
   ja |-> item.ja,
   en |-> IF answer_found(item.en_full, ans)
            THEN str_replace(item.en_full, ans[1], braced(ans[1]))
            ELSE item.en_full,
   answer |-> IF answer_found(item.en_full, ans) THEN ans[1] ELSE S_Unknown,
   explanation |-> strip(join(<<"\n">>, item.expl))]

\* the post-processing of one collected item
V3FinalItem(item) ==
  V3Record(item, IF item.question = << >>
                   THEN Some(S_Unknown)
                   ELSE find_answer_part_v3(item.question, item.en_full))

\* a post-processing that validates nothing
V3PostProcess_all(its) == [k \in 1..Len(its) |-> V3FinalItem(its[k])]

RECURSIVE V3PostProcess(_)
V3PostProcess(its) ==
  IF its = << >> THEN << >>
  ELSE LET item == Head(its)
       IN  IF item.id = << >> \/ item.id = S_Pending \/ item.en_full = << >>
             THEN V3PostProcess(Tail(its))
             ELSE <<V3FinalItem(item)>> \o V3PostProcess(Tail(its))

IsNumericId(id) == Len(id) > 0 /\ id_len(id) = Len(id)

V3State ==
  [current_item |-> current_item, items |-> items,
   japanese_buffer |-> japanese_buffer]

V3Init ==
  /\ pc = "v3_lines"
  /\ nread = 0
  /\ current_item = NoItem3
  /\ state = "FIND_ID"
  /\ pre_id_buffer = << >>
  /\ items = << >>
  /\ sealed = << >>
  /\ japanese_buffer = << >>
  /\ final_items = << >>
  /\ completed = {}
  /\ consumed = << >>
  /\ V5Idle
  /\ FindIdle
  /\ ClassifyIdle
  /\ BatchIdle

V3Line(raw) ==
  /\ pc = "v3_lines"
  /\ nread < MaxLines
  /\ \E st \in {V3Process(V3State, raw)} :
         /\ current_item' = st.current_item
         /\ items' = st.items
         /\ japanese_buffer' = st.japanese_buffer
         /\ completed' =
              IF IsNumericId(st.current_item.id) /\ st.current_item.en_full # << >>
                THEN completed \cup {st.current_item.id}
                ELSE completed
  /\ nread' = nread + 1
  /\ UNCHANGED <<pc, findVars, classifyVars, batchVars, v4Vars, v5Vars, final_items, current_id,
                 consumed>>

\* end of input: collect the open item, post-process, return final_items
V3End ==
  /\ pc = "v3_lines"
  /\ pc' = "v3_done"
  /\ items' = IF current_item # NoItem3 THEN Append(items, current_item) ELSE items
  /\ final_items' = V3PostProcess(items')
  /\ UNCHANGED <<nread, current_item, japanese_buffer, completed, findVars, classifyVars, batchVars,
                 v4Vars, v5Vars, current_id, consumed>>

V3Next == (\E raw \in V3Lines : V3Line(raw)) \/ V3End

V3Spec == V3Init /\ [][V3Next]_vars

-----------------------------------------------------------------------------
(* V3: parse_lines_v3 with the lines recorded *)

MaxRecordedLines == 4

L_Sub2 ==
  <<"-","2">>

L_Kihon ==
  <<"U+57FA","U+672C">>

RecordedLines ==
  {L_Id1, L_Id2, L_Sub2, L_Sub1Eq, L_Id1Answer, L_EmptyParens, L_Japanese,
   L_Tip, L_FCode, L_Words, L_Chapter, L_Kihon}

V3RecordedLine(raw) ==
  /\ pc = "v3_lines"
  /\ nread < MaxRecordedLines
  /\ \E st \in {V3Process(V3State, raw)} :
         /\ current_item' = st.current_item
         /\ items' = st.items
         /\ japanese_buffer' = st.japanese_buffer
         /\ completed' =
              IF IsNumericId(st.current_item.id) /\ st.current_item.en_full # << >>
                THEN completed \cup {st.current_item.id}
                ELSE completed
  /\ nread' = nread + 1
  /\ consumed' = Append(consumed, raw)
  /\ UNCHANGED <<pc, findVars, classifyVars, batchVars, v4Vars, v5Vars, final_items, current_id>>

V3RecordedNext == (\E raw \in RecordedLines : V3RecordedLine(raw)) \/ V3End

V3RecordedSpec == V3Init /\ [][V3RecordedNext]_vars

-----------------------------------------------------------------------------
(* V3: classify_line applied to one line *)

MaxLineLen == 4

LineChars == {"a", " ", "(", ")", "_", "1", "-", "U+82B1"}

L_FilledParens ==
  <<"a"," ","(","b",")"," ","a">>

ClassifyExamples ==
  V3Lines \cup RecordedLines \cup {Q_Under, Q_Train, X_Question, L_FilledParens}

ClassifyInit ==
  /\ pc = "classify"
  /\ line_arg \in Strings(LineChars, MaxLineLen) \cup ClassifyExamples
  /\ classified = None
  /\ ParserIdle
  /\ FindIdle
  /\ BatchIdle

CallClassify ==
  /\ pc = "classify"
  /\ classified' = Some(classify_line(line_arg))
  /\ pc' = "classified"
  /\ UNCHANGED <<line_arg, findVars, parserVars, batchVars>>

ClassifyNext == CallClassify

ClassifySpec == ClassifyInit /\ [][ClassifyNext]_vars

-----------------------------------------------------------------------------
(* V5: parse_chapter_text_v5 *)

MaxLinesV5 == 3

L_Id2Sentence ==
  <<"2"," ","a"," ","b"," ","a"," ","b">>

L_Id2Question ==
  <<"2"," ","a"," ","("," ",")"," ","a"," ","b">>

L_Sub21Sentence ==
  <<"2","-","1"," ","a"," ","b"," ","a"," ","b">>

L_Id10Sentence ==
  <<"1","0"," ","a"," ","b"," ","a"," ","b">>

L_Id77 ==
  <<"7","7">>

L_Marker ==
  <<"a"," ","b"," ","U+25B6"," ","b">>

L_PageNumbers ==
  <<"1","4"," ","1","5">>

V5Lines ==
  {L_Id2Sentence, L_Id2Question, L_Sub21Sentence, L_Id10Sentence, L_Id77,
   L_Japanese, L_English, L_Marker, L_Tip, L_PageNumbers}

S_Arrow == <<"U+25B6">>
S_Underscores == <<"_", "_", "_">>
Mojibake == {"U+0281", "U+0370"}
SortKeyFallback == 9999

\* re.match(r'^F\s+\d+$', s)
is_f_code_line(s) ==
  /\ s # << >>
  /\ s[1] = "F"
  /\ ws_len(s, 1) > 0
  /\ digits_len(s, 1 + ws_len(s, 1)) > 0
  /\ 1 + ws_len(s, 1) + digits_len(s, 1 + ws_len(s, 1)) = Len(s)

\* re.match(r'^\d+$', s)
is_all_digits(s) == s # << >> /\ digits_len(s, 0) = Len(s)

\* the lines the first pass drops
is_filtered_v5(line) ==
  \/ line = << >>
  \/ is_f_code_line(line)
  \/ startswith(line, S_Tip)
  \/ \E i \in 1..Len(line) : line[i] \in Mojibake
  \/ line = S_WordsToUse

\* re.match(r'^(\d+(?:-\d+)?)(?:\s+(.*))?$', line): the length of group 1, or 0
id_match_v5(line) ==
  LET n == id_len(line)
  IN  IF n > 0 /\ (n = Len(line) \/ line[n + 1] \in Whitespace) THEN n ELSE 0

\* group 2 of that match, or ""
pot_content_v5(line) ==
  LET n == id_match_v5(line)
  IN  slice(line, n + ws_len(line, n), Len(line))

is_new_id_v5(line) ==
  /\ id_match_v5(line) > 0
  /\ ~is_all_digits(strip(pot_content_v5(line)))
  /\ id_match_v5(line) < IdMaxLen

\* a first pass that does not seal the open block at a new header
V5Collect_no_seal(st, raw) ==
  LET line == strip(raw)
  IN  IF is_filtered_v5(line) THEN st
      ELSE IF is_new_id_v5(line)
        THEN LET content == strip(pot_content_v5(line))
             IN  [blocks |-> st.blocks,
                  current_block |->
                    [id |-> slice(line, 0, id_match_v5(line)),
                     lines |-> IF content # << >> THEN <<content>> ELSE << >>]]
      ELSE IF st.current_block # NoBlock
        THEN [st EXCEPT !.current_block.lines = Append(@, line)]
      ELSE st

\* first pass, one line
V5Collect(st, raw) ==
  LET line == strip(raw)
  IN  IF is_filtered_v5(line) THEN st
      ELSE IF is_new_id_v5(line)
        THEN LET content == strip(pot_content_v5(line))
             IN  [blocks |-> IF st.current_block # NoBlock
                               THEN Append(st.blocks, st.current_block)
                               ELSE st.blocks,
                  current_block |->
                    [id |-> slice(line, 0, id_match_v5(line)),
                     lines |-> IF content # << >> THEN <<content>> ELSE << >>]]
      ELSE IF st.current_block # NoBlock
        THEN [st EXCEPT !.current_block.lines = Append(@, line)]
      ELSE st

\* second pass: the block is an answer block
is_answer_block(lines) ==
  LET full_text == join(<<" ">>, lines)
  IN  \/ contains(full_text, S_Arrow)
      \/ /\ ~is_japanese(full_text)
         /\ ~contains(full_text, S_Underscores)
         /\ ~contains(full_text, <<"(">>)

\* the answer lines and explanation lines of an answer block
RECURSIVE split_answer_block(_, _, _, _)
split_answer_block(lines, seen_arrow, ans_lines, expl_lines) ==
  IF lines = << >> THEN [ans_lines |-> ans_lines, expl_lines |-> expl_lines]
  ELSE LET l == Head(lines)
           at == str_find(l, S_Arrow)
       IN  IF at # -1
             THEN split_answer_block(Tail(lines), TRUE,
                    IF strip(slice(l, 0, at)) # << >>
                      THEN Append(ans_lines, strip(slice(l, 0, at)))
                      ELSE ans_lines,
                    Append(expl_lines,
                           S_Arrow \o <<" ">> \o strip(slice(l, at + 1, Len(l)))))
           ELSE IF seen_arrow
             THEN split_answer_block(Tail(lines), TRUE, ans_lines,
                                     Append(expl_lines, l))
           ELSE split_answer_block(Tail(lines), FALSE, Append(ans_lines, l),
                                   expl_lines)

\* d[k] = v
dict_set(dict, k, v) ==
  [x \in DOMAIN dict \cup {k} |-> IF x = k THEN v ELSE dict[x]]

\* second pass, an answer block: only the first one of an identifier counts
V5AnswerBlock(acc, bid, parts) ==
  IF bid \notin DOMAIN acc.answers
    THEN [acc EXCEPT
            !.answers = dict_set(@, bid, strip(join(<<" ">>, parts.ans_lines))),
            !.explanations =
               dict_set(@, bid, strip(join(<<"\n">>, parts.expl_lines)))]
    ELSE acc

\* second pass, a question block: the lines of an identifier accumulate
V5QuestionBlock(acc, bid, lines) ==
  IF bid \notin DOMAIN acc.questions
    THEN [acc EXCEPT !.questions = dict_set(@, bid, lines)]
    ELSE [acc EXCEPT !.questions = dict_set(@, bid, @[bid] \o lines)]

\* second pass, one block
V5ProcessBlock(acc, block) ==
  IF is_answer_block(block.lines)
    THEN V5AnswerBlock(acc, block.id,
                       split_answer_block(block.lines, FALSE, << >>, << >>))
    ELSE V5QuestionBlock(acc, block.id, block.lines)

\* second pass over the blocks, from the first to the last
RECURSIVE V5ProcessBlocks(_)
V5ProcessBlocks(bs) ==
  IF bs = << >>
    THEN [answers |-> EmptyDict, questions |-> EmptyDict,
          explanations |-> EmptyDict]
    ELSE V5ProcessBlock(V5ProcessBlocks(SubSeq(bs, 1, Len(bs) - 1)), bs[Len(bs)])

DigitValue(c) ==
  CASE c = "0" -> 0 [] c = "1" -> 1 [] c = "2" -> 2 [] c = "3" -> 3
    [] c = "4" -> 4 [] c = "5" -> 5 [] c = "6" -> 6 [] c = "7" -> 7
    [] c = "8" -> 8 [] c = "9" -> 9

\* int(s) for a string of digits
RECURSIVE to_int(_)
to_int(s) ==
  IF s = << >> THEN 0
  ELSE 10 * to_int(SubSeq(s, 1, Len(s) - 1)) + DigitValue(s[Len(s)])

\* s.split('-')
RECURSIVE split_dash(_)
split_dash(s) ==
  LET i == first_in(s, {"-"}, 0)
  IN  IF i = -1 THEN <<s>>
      ELSE <<slice(s, 0, i)>> \o split_dash(slice(s, i + 1, Len(s)))

\* a key that compares the identifiers as text, character by character
sort_key_as_text(s) ==
  [i \in 1..Len(s) |-> IF s[i] \in Digits THEN DigitValue(s[i]) ELSE -1]

\* sort_key: the list of the integers between the dashes
sort_key(s) ==
  LET parts == split_dash(s)
  IN  IF \A i \in 1..Len(parts) : is_all_digits(parts[i])
        THEN [i \in 1..Len(parts) |-> to_int(parts[i])]
        ELSE <<SortKeyFallback>>

\* a < b for lists of integers
RECURSIVE list_lt(_, _)
list_lt(a, b) ==
  IF b = << >> THEN FALSE
  ELSE IF a = << >> THEN TRUE
  ELSE IF Head(a) # Head(b) THEN Head(a) < Head(b)
  ELSE list_lt(Tail(a), Tail(b))

\* sorted(xs, key=sort_key): stable, so equal keys keep the order of xs
RECURSIVE insert_sorted(_, _)
insert_sorted(done, x) ==
  IF done = << >> THEN <<x>>
  ELSE IF list_lt(sort_key(x), sort_key(Head(done)))
    THEN <<x>> \o done
    ELSE <<Head(done)>> \o insert_sorted(Tail(done), x)

RECURSIVE sorted_from(_, _)
sorted_from(done, xs) ==
  IF xs = << >> THEN done
  ELSE sorted_from(insert_sorted(done, Head(xs)), Tail(xs))

sorted_by_key(xs) == sorted_from(<< >>, xs)

\* list(ids) for a set ids: the iteration order of a set of str is arbitrary
RECURSIVE ListsOf(_)
ListsOf(ids) ==
  IF ids = {} THEN {<< >>}
  ELSE UNION {{<<x>> \o rest : rest \in ListsOf(ids \ {x})} : x \in ids}

\* the jp_lines / en_lines of a question block
q_lines_v5(lines, japanese) ==
  SelectSeq(lines, LAMBDA l : l # S_Kihon /\ (is_japanese(l) <=> japanese))

\* target_word, detected being find_answer_part(en_question, a_text)
target_of(detected) ==
  IF ~IsNone(detected) /\ detected[1] # << >> THEN detected[1] ELSE S_Unknown

target_word_v5(en_question, a_text) ==
  IF en_question # S_Unknown /\ a_text # S_Unknown
    THEN target_of(find_answer_part_v5(en_question, a_text))
    ELSE S_Unknown

\* the record appended to items
V5Record(id_str, jp_part, en_question, a_text, expl_text, target_word) ==
  [id |-> id_str,
   ja |-> jp_part,
   en |-> IF target_word # S_Unknown /\ contains(a_text, target_word)
            THEN str_replace(a_text, target_word, braced(target_word))
            ELSE a_text,
   answer |-> target_word,
   explanation |-> expl_text,
   question |-> en_question]

\* the record of an identifier with the Q components and the answer text
V5Prepared(id_str, jp_part, en_question, a_text, expl_text) ==
  V5Record(id_str, jp_part, en_question, a_text, expl_text,
           target_word_v5(en_question, a_text))

\* third pass, one identifier: the item appended, if any
V5Item(id_str, acc) ==
  LET has_q == id_str \in DOMAIN acc.questions
      a0 == IF id_str \in DOMAIN acc.answers THEN acc.answers[id_str] ELSE << >>
  IN  IF ~has_q /\ a0 = << >> THEN << >>
      ELSE <<V5Prepared(
               id_str,
               IF has_q THEN join(<<" ">>, q_lines_v5(acc.questions[id_str], TRUE))
               ELSE S_Unknown,
               IF has_q THEN join(<<" ">>, q_lines_v5(acc.questions[id_str], FALSE))
               ELSE S_Unknown,
               IF a0 = << >> THEN S_Unknown ELSE a0,
               IF id_str \in DOMAIN acc.explanations
                 THEN acc.explanations[id_str] ELSE << >>)>>

RECURSIVE V5Assemble(_, _)
V5Assemble(sorted_ids, acc) ==
  IF sorted_ids = << >> THEN << >>
  ELSE V5Item(Head(sorted_ids), acc) \o V5Assemble(Tail(sorted_ids), acc)

V5Init ==
  /\ pc = "v5_lines"
  /\ ParserIdle
  /\ FindIdle
  /\ ClassifyIdle
  /\ BatchIdle

V5Line(raw) ==
  /\ pc = "v5_lines"
  /\ nread < MaxLinesV5
  /\ \E st \in {V5Collect([blocks |-> blocks, current_block |-> current_block], raw)} :
         /\ blocks' = st.blocks
         /\ current_block' = st.current_block
  /\ nread' = nread + 1
  /\ consumed' = Append(consumed, raw)
  /\ UNCHANGED <<pc, findVars, classifyVars, batchVars, current_item, items, v4Vars, v3Vars, answers,
                 questions, explanations, current_id>>

\* end of input: seal the open block, process the blocks, assemble the items
V5End ==
  /\ pc = "v5_lines"
  /\ pc' = "v5_done"
  /\ blocks' = IF current_block # NoBlock THEN Append(blocks, current_block)
               ELSE blocks
  /\ \E acc \in {V5ProcessBlocks(blocks')} :
         /\ answers' = acc.answers
         /\ questions' = acc.questions
         /\ explanations' = acc.explanations
  /\ \E all_ids \in ListsOf(DOMAIN answers' \cup DOMAIN questions') :
       items' = V5Assemble(sorted_by_key(all_ids),
                           [answers |-> answers', questions |-> questions',
                            explanations |-> explanations'])
  /\ UNCHANGED <<nread, current_block, current_item, findVars, classifyVars, batchVars, v4Vars, v3Vars,
                 current_id, consumed>>

V5Next == (\E raw \in V5Lines : V5Line(raw)) \/ V5End

V5Spec == V5Init /\ [][V5Next]_vars

\* the segmentation pass over lines that include every kind of noise line
NoiseLines ==
  {L_Id2Sentence, L_English, L_Japanese, L_Tip, L_FCode, L_Words, L_Kihon,
   L_Chapter}

V5NoiseNext == (\E raw \in NoiseLines : V5Line(raw)) \/ V5End

V5NoiseSpec == V5Init /\ [][V5NoiseNext]_vars

\* the parser over lines whose identifiers differ as text but not as numbers
L_Id01Sentence ==
  <<"0","1"," ","a"," ","b"," ","a"," ","b">>

EqualKeyLines ==
  {L_Id1Answer, L_Id01Sentence, L_Id2Sentence, L_Id2Question, L_English,
   L_Japanese}

V5EqualKeyNext == (\E raw \in EqualKeyLines : V5Line(raw)) \/ V5End

V5EqualKeySpec == V5Init /\ [][V5EqualKeyNext]_vars

-----------------------------------------------------------------------------
(* V6: extract_items_from_docx.  A paragraph is its list of runs; a run has *)
(* a text and a font colour ("none" when the run sets no colour).          *)

MaxParas == 3

P_Id17Japanese ==
  <<[text |-> <<"1","7"," ","U+82B1","U+306F","U+3002","U+6C34">>, color |-> "none"]>>

P_Question ==
  <<[text |-> <<"a"," ","("," ",")"," ","a"," ","b">>, color |-> "none"]>>

P_Id18OneRun ==
  <<[text |-> <<"1","8"," ","a"," ">>, color |-> "none"],
    [text |-> <<"b">>, color |-> "red"],
    [text |-> <<" ","a"," ","b">>, color |-> "none"]>>

P_Id18TwoRuns ==
  <<[text |-> <<"1","8"," ","a"," ">>, color |-> "none"],
    [text |-> <<"b">>, color |-> "red"],
    [text |-> <<" ">>, color |-> "none"],
    [text |-> <<"a">>, color |-> "red"],
    [text |-> <<" ","b">>, color |-> "none"]>>

P_Id18Black ==
  <<[text |-> <<"1","8"," ","a"," ">>, color |-> "none"],
    [text |-> <<"b">>, color |-> "black"],
    [text |-> <<" ","a"," ","b">>, color |-> "none"]>>

P_Id2 ==
  <<[text |-> <<"2"," ","a"," ">>, color |-> "none"],
    [text |-> <<"b">>, color |-> "red"]>>

P_Sub21 ==
  <<[text |-> <<"2","-","1"," ","a"," ">>, color |-> "none"],
    [text |-> <<"b">>, color |-> "red"]>>

P_Id10 ==
  <<[text |-> <<"0","1","0"," ","a"," ">>, color |-> "none"],
    [text |-> <<"b">>, color |-> "red"]>>

P_Id77 ==
  <<[text |-> <<"7","7"," ","U+82B1","U+306F">>, color |-> "none"]>>

P_Plain ==
  <<[text |-> <<"a"," ","b"," ","a"," ","b">>, color |-> "none"]>>

P_Marker ==
  <<[text |-> <<"U+25B6"," ","b">>, color |-> "none"]>>

P_File ==
  <<[text |-> <<"F","i","l","e"," ","1">>, color |-> "none"]>>

V6Paragraphs ==
  {P_Id17Japanese, P_Question, P_Id18OneRun, P_Id18TwoRuns, P_Id18Black,
   P_Id2, P_Sub21, P_Id10, P_Id77, P_Plain, P_Marker, P_File}

S_File == <<"F", "i", "l", "e", " ">>
S_Grasp == <<"G", "r", "a", "s", "p", " ">>
S_Hatten == <<"U+767A", "U+5C55">>
S_Circle == <<"U+25CB">>
S_Maru == <<"U+3002">>
BlankOnlyChars == {" ", "\t", "\n", "U+27A1", "U+30FB"}

\* p.text: the texts of the runs, concatenated
RECURSIVE para_text(_)
para_text(runs) ==
  IF runs = << >> THEN << >> ELSE Head(runs).text \o para_text(Tail(runs))

\* id_pattern = ^0?(\d+(?:-\d+)?): where group 1 starts, and its length (0: no match)
id_start_v6(text) ==
  IF Len(text) >= 2 /\ text[1] = "0" /\ text[2] \in Digits THEN 1 ELSE 0

id_len_v6(text) == id_len(slice(text, id_start_v6(text), Len(text)))

\* re.sub(r'^0?' + re.escape(bid) + r'\s*', '', s)
remove_id(s, bid) ==
  LET z == IF s # << >> /\ s[1] = "0" /\ match_at(s, bid, 1) THEN 1
           ELSE IF match_at(s, bid, 0) THEN 0
           ELSE -1
  IN  IF z = -1 THEN s
      ELSE slice(s, z + Len(bid) + ws_len(s, z + Len(bid)), Len(s))

\* re.sub(r'[□]+', '', s)
remove_boxes(s) == SelectSeq(s, LAMBDA c : c # "U+25A1")

\* re.sub(r'F\s*\d+\s*', '', s)
RECURSIVE remove_f_codes(_)
remove_f_codes(s) ==
  IF s = << >> THEN << >>
  ELSE LET w == ws_len(s, 1)
           n == digits_len(s, 1 + w)
       IN  IF s[1] = "F" /\ n > 0
             THEN remove_f_codes(slice(s, 1 + w + n + ws_len(s, 1 + w + n), Len(s)))
             ELSE <<s[1]>> \o remove_f_codes(Tail(s))

\* the run counts as emphasized
is_colored(run) ==
  /\ run.color \notin {"none", "white", "black"}
  /\ ~(\A i \in 1..Len(run.text) : run.text[i] \in BlankOnlyChars)

\* the sentence rebuilt from the runs, the emphasized ones in braces
RECURSIVE reconstruct(_)
reconstruct(runs) ==
  IF runs = << >> THEN << >>
  ELSE (IF Head(runs).text # << >> /\ is_colored(Head(runs))
          THEN braced(Head(runs).text)
          ELSE Head(runs).text) \o reconstruct(Tail(runs))

\* the stripped texts of the emphasized runs
RECURSIVE colored_segments(_)
colored_segments(runs) ==
  IF runs = << >> THEN << >>
  ELSE (IF Head(runs).text # << >> /\ is_colored(Head(runs))
          THEN <<strip(Head(runs).text)>>
          ELSE << >>) \o colored_segments(Tail(runs))

NoFields ==
  [ja_lines |-> << >>, q_lines |-> << >>, ans_sentence_parts |-> << >>,
   ans_raw_words |-> << >>, expl_lines |-> << >>]

\* the classification of a paragraph: clean_line before the F-codes are
\* removed, english after, reconstructed_sent and colored_segments of its runs
V6Classify(acc, clean_line, english, reconstructed_sent, segments) ==
  IF contains(clean_line, S_Arrow) \/ startswith(clean_line, S_Tip)
    THEN [acc EXCEPT !.expl_lines = Append(@, clean_line)]
  ELSE IF is_japanese(clean_line)
    THEN IF \/ contains(clean_line, S_Kihon)
            \/ contains(clean_line, S_Hatten)
            \/ startswith(clean_line, S_Circle)
            \/ contains(clean_line, S_WordsToUse)
           THEN acc
           ELSE [acc EXCEPT !.ja_lines = Append(@, clean_line)]
  ELSE IF \E i \in 1..Len(english) : english[i] \in {"(", "U+FF08", "_"}
    THEN [acc EXCEPT !.q_lines = Append(@, english)]
  ELSE IF segments # << >>
    THEN [acc EXCEPT !.ans_sentence_parts = Append(@, reconstructed_sent),
                     !.ans_raw_words = @ \o segments]
  ELSE IF acc.ans_sentence_parts = << >>
    THEN [acc EXCEPT !.q_lines = Append(@, english)]
  ELSE [acc EXCEPT !.expl_lines = Append(@, english)]

\* clean_line: the text without identifier and check boxes
clean_line_of(text, bid) == strip(remove_boxes(strip(remove_id(text, bid))))

V6CleanLine(acc, bid, runs, clean_line) ==
  V6Classify(acc, clean_line, strip(remove_f_codes(clean_line)),
             strip(remove_f_codes(clean_line_of(reconstruct(runs), bid))),
             colored_segments(runs))

\* one paragraph of the block bid
V6Paragraph(acc, bid, runs) ==
  IF strip(para_text(runs)) = << >> THEN acc
  ELSE V6CleanLine(acc, bid, runs, clean_line_of(strip(para_text(runs)), bid))

RECURSIVE V6Fields(_, _)
V6Fields(bid, paras) ==
  IF paras = << >> THEN NoFields
  ELSE V6Paragraph(V6Fields(bid, SubSeq(paras, 1, Len(paras) - 1)), bid,
                   paras[Len(paras)])

\* re.sub(r'\{\s*\}', '', s)
RECURSIVE remove_empty_braces(_)
remove_empty_braces(s) ==
  IF s = << >> THEN << >>
  ELSE IF s[1] = "{" /\ 1 + ws_len(s, 1) < Len(s) /\ s[2 + ws_len(s, 1)] = "}"
    THEN remove_empty_braces(slice(s, 2 + ws_len(s, 1), Len(s)))
    ELSE <<s[1]>> \o remove_empty_braces(Tail(s))

first_sentence_whole(ja_text) == ja_text

\* the Japanese text up to and including its first "。"
first_sentence(ja_text) ==
  LET i == str_find(ja_text, S_Maru)
  IN  IF i = -1 THEN ja_text ELSE slice(ja_text, 0, i) \o S_Maru

\* the item assembled from the components of one block
V6Assemble(bid, fields) ==
  [id |-> bid,
   ja |-> first_sentence(strip(join(<<" ">>, fields.ja_lines))),
   en |-> normalize(remove_empty_braces(
            IF fields.ans_sentence_parts # << >>
              THEN join(<<" ">>, fields.ans_sentence_parts)
              ELSE S_Unknown)),
   answer |-> join(<<",", " ">>,
                   SelectSeq(fields.ans_raw_words, LAMBDA w : w # << >>)),
   explanation |-> join(<<"\n">>, fields.expl_lines),
   question |-> join(<<" ">>, fields.q_lines)]

\* the item of one block
V6Item(bid, paras) == V6Assemble(bid, V6Fields(bid, paras))

\* the first loop, one paragraph
V6Collect(st, runs) ==
  LET text == strip(para_text(runs))
      n == id_len_v6(text)
      raw_id == slice(text, id_start_v6(text), id_start_v6(text) + n)
      cur == IF n > 0 THEN Some(raw_id) ELSE st.current_id
      known == \E i \in 1..Len(st.blocks) : st.blocks[i].id = raw_id
      bs == IF n > 0 /\ ~known
              THEN Append(st.blocks, [id |-> raw_id, paras |-> << >>])
              ELSE st.blocks
  IN  IF text = << >> THEN st
      ELSE IF \/ startswith(text, S_File)
              \/ startswith(text, S_Grasp)
              \/ startswith(text, S_WordsToUse)
        THEN st
      ELSE [current_id |-> cur,
            blocks |-> IF IsNone(cur) THEN bs
                       ELSE [i \in 1..Len(bs) |->
                               IF bs[i].id = cur[1]
                                 THEN [bs[i] EXCEPT !.paras = Append(@, runs)]
                                 ELSE bs[i]]]

\* the items of the blocks, in the order of the sorted identifiers
RECURSIVE V6Items(_, _)
V6Items(sorted_ids, bs) ==
  IF sorted_ids = << >> THEN << >>
  ELSE LET bid == Head(sorted_ids)
           b == CHOOSE x \in {bs[i] : i \in 1..Len(bs)} : x.id = bid
       IN  <<V6Item(bid, b.paras)>> \o V6Items(Tail(sorted_ids), bs)

V6Init ==
  /\ pc = "v6_paragraphs"
  /\ ParserIdle
  /\ FindIdle
  /\ ClassifyIdle
  /\ BatchIdle

V6Para(runs) ==
  /\ pc = "v6_paragraphs"
  /\ nread < MaxParas
  /\ \E st \in {V6Collect([current_id |-> current_id, blocks |-> blocks], runs)} :
       /\ current_id' = st.current_id
       /\ blocks' = st.blocks
  /\ nread' = nread + 1
  /\ UNCHANGED <<pc, findVars, classifyVars, batchVars, current_item, items, v4Vars, v3Vars,
                 current_block, answers, questions, explanations, consumed>>

\* end of the document: sort the identifiers, build the items, return them
V6End ==
  /\ pc = "v6_paragraphs"
  /\ pc' = "v6_done"
  /\ items' = V6Items(sorted_by_key(ItemIds(blocks)), blocks)
  /\ UNCHANGED <<nread, findVars, classifyVars, batchVars, current_item, v4Vars, v3Vars, v5Vars,
                 current_id, consumed>>

V6Next == (\E runs \in V6Paragraphs : V6Para(runs)) \/ V6End

V6Spec == V6Init /\ [][V6Next]_vars

\* the extractor over paragraphs that carry emphasized runs and blank markers
P_Id18Parens ==
  <<[text |-> <<"1","8"," ","a"," ","(">>, color |-> "none"],
    [text |-> <<"b">>, color |-> "red"],
    [text |-> <<")"," ","a"," ","b">>, color |-> "none"]>>

EmphasisParagraphs ==
  {P_Id18Parens, P_Id18OneRun, P_Id18TwoRuns, P_Id2, P_Plain, P_Question,
   P_Id17Japanese}

V6EmphasisNext == (\E runs \in EmphasisParagraphs : V6Para(runs)) \/ V6End

V6EmphasisSpec == V6Init /\ [][V6EmphasisNext]_vars

-----------------------------------------------------------------------------
(* Either extractor that sorts its items: the V5 parser or the V6 extractor *)

SortedInit == V5Init \/ V6Init

SortedNext == V5Next \/ V6Next

SortedSpec == SortedInit /\ [][SortedNext]_vars

-----------------------------------------------------------------------------
(* main: the batch loop of the generators V5 and V6 *)

MaxFiles == 3

\* file names, without the suffix that glob matched (".pdf", ".docx")
N_Ch1 == <<"c", "1">>
N_Ch2 == <<"c", "2">>
N_Ch10 == <<"c", "1", "0">>
N_Ch1000 == <<"c", "1", "0", "0", "0">>
N_Wide1 == <<"c", "U+FF11">>
N_None == <<"c">>

FileNames == {N_Ch1, N_Ch2, N_Ch10, N_Ch1000, N_Wide1, N_None}

NoChapterNumber == 999

\* NFKC of one character: a full-width digit becomes the ASCII digit
nfkc(c) ==
  CASE c = "U+FF10" -> "0" [] c = "U+FF11" -> "1" [] c = "U+FF12" -> "2"
    [] c = "U+FF13" -> "3" [] c = "U+FF14" -> "4" [] c = "U+FF15" -> "5"
    [] c = "U+FF16" -> "6" [] c = "U+FF17" -> "7" [] c = "U+FF18" -> "8"
    [] c = "U+FF19" -> "9" [] OTHER -> c

\* unicodedata.normalize('NFKC', filename)
normalize_nfkc(filename) == [i \in 1..Len(filename) |-> nfkc(filename[i])]

\* the first run of digits of the normalized name as an integer, or 999
get_chapter_number(filename) ==
  LET normalized == normalize_nfkc(filename)
      i == first_in(normalized, Digits, 0)
  IN  IF i = -1 THEN NoChapterNumber
      ELSE to_int(slice(normalized, i, i + digits_len(normalized, i)))

\* str(n) for n >= 0
RECURSIVE str_of_int(_)
str_of_int(n) ==
  LET d == <<"0", "1", "2", "3", "4", "5", "6", "7", "8", "9">>[(n % 10) + 1]
  IN  IF n < 10 THEN <<d>> ELSE str_of_int(n \div 10) \o <<d>>

\* f"chapter-{chap_num:02d}.html"
output_name_of(chap_num) ==
  <<"c", "h", "a", "p", "t", "e", "r", "-">>
    \o (IF chap_num < 10 THEN <<"0">> ELSE << >>) \o str_of_int(chap_num)
    \o <<".", "h", "t", "m", "l">>

\* f"Chapter {chap_num}"
title_of(chap_num) ==
  <<"C", "h", "a", "p", "t", "e", "r", " ">> \o str_of_int(chap_num)

\* the files in the order glob happened to return them
unsorted_files(found) == found

\* files.sort(key=lambda x: get_chapter_number(x.name)): stable
RECURSIVE insert_file(_, _)
insert_file(done, x) ==
  IF done = << >> THEN <<x>>
  ELSE IF get_chapter_number(x) < get_chapter_number(Head(done))
    THEN <<x>> \o done
    ELSE <<Head(done)>> \o insert_file(Tail(done), x)

RECURSIVE sort_files_from(_, _)
sort_files_from(done, xs) ==
  IF xs = << >> THEN done
  ELSE sort_files_from(insert_file(done, Head(xs)), Tail(xs))

sorted_files(found) == sort_files_from(<< >>, found)

\* the loop goes on to the index as soon as the first file is finished
LoopPc_early(idx, fs) == "main_index"

\* the head of the for loop: the next file, or the code after the loop
LoopPc(idx, fs) == IF idx < Len(fs) THEN "main_extract" ELSE "main_index"

\* the exception of the extraction leaves main
ExtractFailure_abort(s, idx, fs) == [pc |-> "main_done", file_idx |-> idx]

\* a failing extraction: V6 catches the exception in the loop body and goes
\* to the next file; V5's extract_text_pypdf catches it and returns "", so
\* the loop body goes on with no items
ExtractFailure(s, idx, fs) ==
  IF s = "v6"
    THEN [pc |-> LoopPc(idx + 1, fs), file_idx |-> idx + 1]
    ELSE [pc |-> "main_write", file_idx |-> idx]

MainInit ==
  /\ pc = "main"
  /\ script \in {"v5", "v6"}
  /\ files = << >>
  /\ file_idx = 0
  /\ generated_links = << >>
  /\ written = EmptyDict
  /\ index_html = None
  /\ failed = {}
  /\ ParserIdle
  /\ FindIdle
  /\ ClassifyIdle

\* files = list(DIR.glob(...)); files.sort(...)
MainStart ==
  /\ pc = "main"
  /\ \E names \in SUBSET FileNames :
       /\ Cardinality(names) <= MaxFiles
       /\ \E found \in ListsOf(names) :
            /\ files' = sorted_files(found)
            /\ pc' = LoopPc(0, files')
  /\ UNCHANGED <<script, file_idx, generated_links, written, index_html, failed,
                 findVars, classifyVars, parserVars>>

\* the extraction of the next file: it succeeds or it fails
MainExtract ==
  /\ pc = "main_extract"
  /\ \/ /\ pc' = "main_write"
        /\ UNCHANGED <<file_idx, failed>>
     \/ /\ failed' = failed \cup {files[file_idx + 1]}
        /\ \E next \in {ExtractFailure(script, file_idx, files)} :
             /\ pc' = next.pc
             /\ file_idx' = next.file_idx
  /\ UNCHANGED <<script, files, generated_links, written, index_html,
                 findVars, classifyVars, parserVars>>

\* the rest of the loop body: write the chapter file, collect its link
MainWrite ==
  /\ pc = "main_write"
  /\ LET name == files[file_idx + 1]
         chap_num == get_chapter_number(name)
         output_name == output_name_of(chap_num)
     IN  /\ written' =
              dict_set(written, output_name,
                       IF output_name \in DOMAIN written
                         THEN Append(written[output_name], name)
                         ELSE <<name>>)
         /\ generated_links' =
              Append(generated_links,
                     [fname |-> output_name, title |-> title_of(chap_num)])
  /\ file_idx' = file_idx + 1
  /\ pc' = LoopPc(file_idx', files)
  /\ UNCHANGED <<script, files, index_html, failed, findVars, classifyVars,
                 parserVars>>

\* after the loop: index.html lists the collected links
MainIndex ==
  /\ pc = "main_index"
  /\ index_html' = Some(generated_links)
  /\ pc' = "main_done"
  /\ UNCHANGED <<script, files, file_idx, generated_links, written, failed,
                 findVars, classifyVars, parserVars>>

MainNext == MainStart \/ MainExtract \/ MainWrite \/ MainIndex

MainSpec == MainInit /\ [][MainNext]_vars

-----------------------------------------------------------------------------
(* main: one call of the parser per document (V4, V5) *)

MaxCalls == 2

\* locals that keep the look-back buffer of the previous call
V4Locals_kept ==
  [current_item |-> NoItem, state |-> "FIND_ID",
   pre_id_buffer |-> pre_id_buffer, items |-> << >>, sealed |-> << >>]

\* the locals parse_chapter_text creates on entry
V4Locals ==
  [current_item |-> NoItem, state |-> "FIND_ID", pre_id_buffer |-> << >>,
   items |-> << >>, sealed |-> << >>]

\* the locals parse_chapter_text_v5 creates on entry
V5Locals == [blocks |-> << >>, current_block |-> NoBlock]

\* the loop of main calls parse_chapter_text for the next document
V4Again ==
  /\ pc = "v4_done"
  /\ file_idx + 1 < MaxCalls
  /\ pc' = "v4_lines"
  /\ file_idx' = file_idx + 1
  /\ \E st \in {V4Locals} :
       /\ current_item' = st.current_item
       /\ state' = st.state
       /\ pre_id_buffer' = st.pre_id_buffer
       /\ items' = st.items
       /\ sealed' = st.sealed
  /\ nread' = 0
  /\ consumed' = << >>
  /\ UNCHANGED <<findVars, classifyVars, v3Vars, v5Vars, current_id, script,
                 files, generated_links, written, index_html, failed>>

\* the loop of main calls parse_chapter_text_v5 for the next document
V5Again ==
  /\ pc = "v5_done"
  /\ file_idx + 1 < MaxCalls
  /\ pc' = "v5_lines"
  /\ file_idx' = file_idx + 1
  /\ \E st \in {V5Locals} :
       /\ blocks' = st.blocks
       /\ current_block' = st.current_block
  /\ answers' = EmptyDict
  /\ questions' = EmptyDict
  /\ explanations' = EmptyDict
  /\ items' = << >>
  /\ nread' = 0
  /\ consumed' = << >>
  /\ UNCHANGED <<findVars, classifyVars, v3Vars, v4Vars, current_item,
                 current_id, script, files, generated_links, written,
                 index_html, failed>>

CallsInit == V4Init \/ V5Init

CallsNext ==
  \/ \E raw \in SeekLines : V4SeekLine(raw)
  \/ V4End
  \/ V4Again
  \/ \E raw \in V5Lines : V5Line(raw)
  \/ V5End
  \/ V5Again

CallsSpec == CallsInit /\ [][CallsNext]_vars

-----------------------------------------------------------------------------
(* Properties *)

\* number of occurrences of sub in s, overlapping ones included
occurrences(s, sub) ==
  Cardinality({i \in 0..(Len(s) - Len(sub)) : match_at(s, sub, i)})

\* C1: in the V4 parser the items are exactly the sealed blocks that had an
\* identifier and a filled sentence when they were sealed, in sealing order;
\* a block sealed without a filled sentence contributes no item.
C1_ItemIffSealedWithSentence ==
  ItemIds(items)
    = ItemIds(SelectSeq(sealed, LAMBDA b : b.id # << >> /\ b.en_full # << >>))

\* C1 witness: two blocks were sealed, one of them without a filled sentence,
\* and the other one is the only item.
C1_Witness ==
  /\ pc = "v4_done"
  /\ Len(sealed) = 2
  /\ sealed[1].en_full # << >>
  /\ sealed[2].en_full = << >>
  /\ Len(items) = 1

\* C2: in the V3 parser every item that once had a numeric identifier and a
\* non-empty filled sentence is in the returned list.
C2_CompletedItemKept ==
  pc = "v3_done" =>
    \A id \in completed : \E i \in 1..Len(final_items) : final_items[i].id = id

\* the blocks of the V5 first pass (or of V6) that carry the identifier id
BlocksOf(id) == SelectSeq(blocks, LAMBDA b : b.id = id)

\* every V5 block of id holds native-language lines and nothing else
NativeOnlyV5(id) ==
  \A i \in 1..Len(BlocksOf(id)) :
    /\ BlocksOf(id)[i].lines # << >>
    /\ \A k \in 1..Len(BlocksOf(id)[i].lines) : is_japanese(BlocksOf(id)[i].lines[k])

\* every paragraph of the V6 block of id is taken for native-language text
NativeOnlyV6(id) ==
  \A i \in 1..Len(BlocksOf(id)) :
    /\ BlocksOf(id)[i].paras # << >>
    /\ \A k \in 1..Len(BlocksOf(id)[i].paras) :
         V6Paragraph(NoFields, id, BlocksOf(id)[i].paras[k]).ja_lines # << >>

\* C3: an identifier whose blocks hold only native-language content and no
\* filled sentence is not the identifier of any item that the V5 parser or
\* the V6 extractor returns.
C3_NativeOnlyDropped ==
  /\ pc = "v5_done" => \A i \in 1..Len(items) : ~NativeOnlyV5(items[i].id)
  /\ pc = "v6_done" => \A i \in 1..Len(items) : ~NativeOnlyV6(items[i].id)

\* base and sub-index of an identifier "base" or "base-sub"; no sub-index: -1
IdBase(id) == to_int(split_dash(id)[1])
IdSub(id) == IF Len(split_dash(id)) > 1 THEN to_int(split_dash(id)[2]) ELSE -1

IdLe(a, b) ==
  \/ IdBase(a) < IdBase(b)
  \/ IdBase(a) = IdBase(b) /\ IdSub(a) <= IdSub(b)

IsAnswerParagraph(bid, runs) ==
  V6Paragraph(NoFields, bid, runs).ans_sentence_parts # << >>

\* the filled sentence of a V6 block: the texts of its answer paragraphs
FilledSentenceV6(b) ==
  normalize(join(<<" ">>,
    [k \in 1..Len(SelectSeq(b.paras, LAMBDA r : IsAnswerParagraph(b.id, r))) |->
       strip(remove_f_codes(clean_line_of(
         strip(para_text(SelectSeq(b.paras,
                 LAMBDA r : IsAnswerParagraph(b.id, r))[k])), b.id)))]))

\* C5: for every item with an answer, replacing "{answer}" in en by the
\* answer gives back the filled sentence (here: of the V6 extractor).
C5_RoundTrip ==
  pc = "v6_done" =>
    \A i \in 1..Len(items) :
      (items[i].answer # << >> /\ items[i].answer # S_Unknown) =>
        str_replace(items[i].en, braced(items[i].answer), items[i].answer)
          = FilledSentenceV6(BlocksOf(items[i].id)[1])

\* C6: an emitted en field wraps exactly one occurrence of the answer.
C6_OneOccurrenceWrapped ==
  \A i \in 1..Len(items) :
    (pc = "v4_done" /\ items[i].answer # S_Unknown) =>
      occurrences(items[i].en, braced(items[i].answer)) = 1

\* positions (1-based) of the characters of s that lie in chars
PositionsIn(s, chars) == {i \in 1..Len(s) : s[i] \in chars}

SetMin(S) == CHOOSE x \in S : \A y \in S : x <= y
SetMax(S) == CHOOSE x \in S : \A y \in S : x >= y

\* the question text before its first opening delimiter, trimmed
TextBeforeFirstOpen(q) ==
  strip(SubSeq(q, 1, SetMin(PositionsIn(q, OpenParens)) - 1))

\* the question text after its last closing delimiter, trimmed; "" if none
TextAfterLastClose(q) ==
  IF PositionsIn(q, CloseParens) = {} THEN << >>
  ELSE strip(SubSeq(q, SetMax(PositionsIn(q, CloseParens)) + 1, Len(q)))

\* offsets (0-based) at which sub occurs in f
OccurrencesOf(f, sub) ==
  {i \in 0..(Len(f) - Len(sub)) : SubSeq(f, i + 1, i + Len(sub)) = sub}

\* end of the first occurrence of prefix; 0 if prefix is empty or absent
StartIndex(f, prefix) ==
  IF prefix = << >> \/ OccurrencesOf(f, prefix) = {} THEN 0
  ELSE SetMin(OccurrencesOf(f, prefix)) + Len(prefix)

\* start of the last occurrence of suffix; len(f) if suffix is empty or absent
EndIndex(f, suffix) ==
  IF suffix = << >> \/ OccurrencesOf(f, suffix) = {} THEN Len(f)
  ELSE SetMax(OccurrencesOf(f, suffix))

\* f sliced [StartIndex, EndIndex) between the two anchors, trimmed
SliceBetween(f, prefix, suffix) ==
  strip(SubSeq(f, StartIndex(f, prefix) + 1, EndIndex(f, suffix)))

\* s without ASCII parentheses, trimmed
WithoutParens(s) == strip(SelectSeq(s, LAMBDA c : c \notin {"(", ")"}))

\* C7: V5 find_answer_part, on a question with parenthesized blanks, takes
\* as prefix the text before the FIRST opening delimiter and as suffix the
\* text after the LAST closing delimiter; the train example gives
\* "arrived at Tokyo Station".
C7_SuffixAfterLastParen ==
  (pc = "v5_returned" /\ PositionsIn(normalize(question), OpenParens) # {}) =>
    result = Some(WithoutParens(SliceBetween(normalize(full_sentence),
                    TextBeforeFirstOpen(normalize(question)),
                    TextAfterLastClose(normalize(question)))))

\* C8: V4 find_answer_part, on a question with an opening parenthesis,
\* returns the normalized filled sentence sliced [startIndex, endIndex) and
\* trimmed: startIndex the end of the first occurrence of the prefix (0 if
\* empty or absent), endIndex the start of the last occurrence of the suffix
\* (the end of the string if empty or absent).
C8_SliceBetweenAnchors ==
  (pc = "v4_returned" /\ PositionsIn(normalize(question), OpenParens) # {}) =>
    result = Some(SliceBetween(normalize(full_sentence),
                    TextBeforeFirstOpen(normalize(question)),
                    TextAfterLastClose(normalize(question))))

\* C8 witness: the suffix "a" occurs twice in "abaa"; the slice ends at the
\* last occurrence.
C8_Witness ==
  /\ pc = "v4_returned"
  /\ question = <<"(", ")", "a">>
  /\ full_sentence = <<"a", "b", "a", "a">>
  /\ result = Some(<<"a", "b", "a">>)

\* the question has neither a parenthesis nor an underscore
NoBlankMarker(q) == PositionsIn(q, OpenParens \cup CloseParens \cup {"_"}) = {}

\* longest common prefix and suffix lengths, character-wise
PrefixLen(q, f) ==
  SetMax({k \in 0..Len(q) : k <= Len(f) /\ SubSeq(q, 1, k) = SubSeq(f, 1, k)})
SuffixLen(q, f) ==
  SetMax({k \in 0..Len(q) :
    k <= Len(f) /\ SubSeq(q, Len(q) - k + 1, Len(q)) = SubSeq(f, Len(f) - k + 1, Len(f))})

\* f sliced [P, length - S), trimmed
Middle(q, f) == strip(SubSeq(f, PrefixLen(q, f) + 1, Len(f) - SuffixLen(q, f)))

\* C9 as stated: V5 find_answer_part, on a question with no parenthesis and
\* no underscore, returns the middle [P, length - S) whenever
\* P + S < length(filled sentence).
C9_DiffWheneverRoom ==
  LET q == normalize(question)
      f == normalize(full_sentence)
  IN  (pc = "v5_returned" /\ NoBlankMarker(q)
         /\ PrefixLen(q, f) + SuffixLen(q, f) < Len(f)) =>
        result = Some(Middle(q, f))

\* C9 amended: V5 find_answer_part, on a question with no parenthesis and no
\* underscore, returns the middle [P, length - S) whenever
\* P + S < length(filled sentence) and P > 0 or S > 0; otherwise it returns
\* no answer.
C9_DiffWhenCommonPart ==
  LET q == normalize(question)
      f == normalize(full_sentence)
  IN  (pc = "v5_returned" /\ NoBlankMarker(q)) =>
        result = IF /\ PrefixLen(q, f) + SuffixLen(q, f) < Len(f)
                    /\ (PrefixLen(q, f) > 0 \/ SuffixLen(q, f) > 0)
                   THEN Some(Middle(q, f))
                   ELSE None

\* C9 witness: the woman example returns "is watering"
C9_Witness ==
  /\ pc = "v5_returned"
  /\ question = Q_Woman
  /\ full_sentence = F_Woman
  /\ result = Some(A_Woman)

\* the slice that Priority 2 takes between the anchors of the blank markers
Priority2(q, f) ==
  IF first_in(q, OpenParens, 0) # -1
    THEN paren_branch_v5(q, f, first_in(q, OpenParens, 0))
    ELSE underscore_branch_v5(q, f, first_in(q, {"_"}, 0))

\* C10: when the question has blank markers and the Priority-2 slice is
\* empty, V5 find_answer_part returns what the common-prefix/common-suffix
\* computation (Priority 3) gives, not the empty Priority-2 result.
C10_FallsBackToDiff ==
  LET q == normalize(question)
      f == normalize(full_sentence)
  IN  (/\ pc = "v5_returned"
       /\ PositionsIn(q, OpenParens \cup {"_"}) # {}
       /\ Priority2(q, f) = Some(<< >>)
       /\ diff_fallback(q, f) # None) =>
        result = diff_fallback(q, f)

\* the collected V3 items that the post-processing keeps
KeptV3 ==
  SelectSeq(items, LAMBDA it : it.id # << >> /\ it.id # S_Pending /\ it.en_full # << >>)

\* no extraction priority gives a non-empty answer for the collected V3 item
NoAnswerV3(it) ==
  \/ it.question = << >>
  \/ find_answer_part_v3(it.question, it.en_full) \in {None, Some(<< >>)}

\* C11: an item with a filled sentence for which no extraction priority gives
\* a non-empty answer is emitted with answer "???" and with en equal to the
\* unmodified filled sentence (here: by the V3 parser).
C11_UnresolvedKeptUnmodified ==
  pc = "v3_done" =>
    /\ Len(final_items) = Len(KeptV3)
    /\ \A i \in 1..Len(final_items) :
         NoAnswerV3(KeptV3[i]) =>
           /\ final_items[i].answer = S_Unknown
           /\ final_items[i].en = KeptV3[i].en_full

\* the native-script lines among lines, without the Tip lines
NativeLines(lines) ==
  SelectSeq([i \in 1..Len(lines) |-> strip(lines[i])],
            LAMBDA l : is_japanese(l) /\ ~startswith(l, S_Tip))

\* C12: in the V4 parser the native-script lines read before a header while
\* no block is open become, space-joined in input order, the native text of
\* the block that the header opens; the look-back example gives one item with
\* id "15", its native line, its filled sentence and answer "to be watered".
C12_LookBackAttached ==
  /\ (pc = "v4_lines" /\ current_item # NoItem /\ Len(ItemIds(sealed)) = 0
        /\ consumed # << >> /\ strip(consumed[Len(consumed)]) = current_item.id
        /\ \A k \in 1..(Len(consumed) - 1) : id_len(strip(consumed[k])) = 0) =>
       current_item.ja = join(<<" ">>, NativeLines(SubSeq(consumed, 1, Len(consumed) - 1)))
  /\ (pc = "v4_done" /\ consumed = ExampleInput) =>
       items = <<[id |-> X_Id15, ja |-> X_Native, en |-> X_Wrapped,
                  answer |-> X_Answer, explanation |-> << >>]>>

\* C12 witness: the example was read to its end and its item carries the
\* native line that came before the header.
C12_Witness ==
  /\ pc = "v4_done"
  /\ consumed = ExampleInput
  /\ Len(items) = 1
  /\ items[1].ja = X_Native
  /\ items[1].answer = X_Answer

\* C13: in the V4 parser the look-back buffer holds only lines read while no
\* block was open: the native text given to a newly opened block contains no
\* line that was accumulated into the explanation of the block before it.
C13_NoStaleLookBack ==
  [][(pc = "v4_lines" /\ pc' = "v4_lines" /\ current_item # NoItem
        /\ current_item'.id # current_item.id) =>
       \A k \in 1..Len(current_item.explanation_lines) :
         ~contains(current_item'.ja, current_item.explanation_lines[k])]_vars

\* the line consumed by the step, trimmed
LineRead == strip(consumed'[Len(consumed')])

\* the identifier a line starts with ("" if none) and what follows it
HeaderId(line) == SubSeq(line, 1, id_len(line))
HeaderRest(line) == strip(SubSeq(line, id_len(line) + 1, Len(line)))

\* the step consumes a line that repeats the identifier of the open block
RepeatsOpenId ==
  /\ pc = "v4_lines" /\ consumed' # consumed
  /\ current_item # NoItem
  /\ HeaderId(LineRead) = current_item.id

\* the step consumes a line without identifier in the seek-answer state
SeeksAnswer ==
  /\ pc = "v4_lines" /\ consumed' # consumed
  /\ current_item # NoItem /\ state = "POST_ID_SEARCH"
  /\ LineRead # << >> /\ HeaderId(LineRead) = << >>

\* F-code or Tip line, or native-script text
NoiseOrNative(line) ==
  is_f_code(line) \/ startswith(line, S_Tip) \/ is_japanese(line)

\* the repeated header takes its trailing content as the filled sentence if
\* it is non-native and longer than 5 characters, and else starts the seek
RepeatedHeaderStep ==
  RepeatsOpenId =>
    IF ~is_japanese(HeaderRest(LineRead)) /\ Len(HeaderRest(LineRead)) > 5
      THEN current_item'.en_full = HeaderRest(LineRead)
      ELSE state' = "POST_ID_SEARCH" /\ current_item' = current_item

\* C14 as stated: in the V4 parser a repeated header takes its trailing
\* content as the filled sentence if it is non-native and longer than 5
\* characters and else starts the seek; the seek makes the first subsequent
\* line that is neither noise nor native-script text the filled sentence.
C14_SeekTakesFirstLine ==
  [][/\ RepeatedHeaderStep
     /\ SeeksAnswer =>
          IF NoiseOrNative(LineRead)
            THEN current_item'.en_full = current_item.en_full
                   /\ state' = "POST_ID_SEARCH"
            ELSE current_item'.en_full = LineRead]_vars

\* C14 amended: as C14, the seek taking the first subsequent line that is
\* neither noise nor native-script text and is longer than 2 characters.
C14_SeekTakesFirstLongLine ==
  [][/\ RepeatedHeaderStep
     /\ SeeksAnswer =>
          IF NoiseOrNative(LineRead) \/ Len(LineRead) <= 2
            THEN current_item'.en_full = current_item.en_full
                   /\ state' = "POST_ID_SEARCH"
            ELSE current_item'.en_full = LineRead /\ state' = "EXPLANATION"]_vars

\* C14 witness: "1", "1", a Tip line and then the sentence: the seek skipped
\* the noise and took the sentence.
C14_Witness ==
  /\ pc = "v4_lines"
  /\ consumed = <<L_Id1, L_Id1, L_Tip, L_English>>
  /\ current_item.en_full = L_English
  /\ state = "EXPLANATION"

\* C15: in the V4 parser a line seals the open block and opens a new one only
\* if it consists of an identifier alone or of an identifier followed by
\* native-language text; a content line that merely begins with digits does
\* not.
C15_OnlyHeadersOpenBlocks ==
  [][(pc = "v4_lines" /\ consumed' # consumed /\ current_item # NoItem
        /\ current_item'.id # current_item.id) =>
       /\ HeaderId(LineRead) # << >>
       /\ HeaderRest(LineRead) = << >> \/ is_japanese(HeaderRest(LineRead))]_vars

\* the consumed lines that the V5 first pass accepts, trimmed
AcceptedV5 ==
  SelectSeq([i \in 1..Len(consumed) |-> strip(consumed[i])],
            LAMBDA l : ~is_filtered_v5(l))

\* the positions of the qualifying headers among the accepted lines
HeadersV5 == {i \in 1..Len(AcceptedV5) : is_new_id_v5(AcceptedV5[i])}

\* the position of the k-th qualifying header
HeaderAt(k) ==
  CHOOSE i \in HeadersV5 : Cardinality({j \in HeadersV5 : j <= i}) = k

\* the block of the header at position i: its trailing content, then the
\* accepted lines up to the next header or the end of the input
BlockFrom(i) ==
  LET content == strip(pot_content_v5(AcceptedV5[i]))
      next == SetMin({j \in HeadersV5 : j > i} \cup {Len(AcceptedV5) + 1})
  IN  [id |-> SubSeq(AcceptedV5[i], 1, id_match_v5(AcceptedV5[i])),
       lines |-> (IF content # << >> THEN <<content>> ELSE << >>)
                   \o SubSeq(AcceptedV5, i + 1, next - 1)]

\* C16: after the V5 first pass the block list holds one block per qualifying
\* header, in input order, each with the header's trailing content and the
\* accepted lines up to the next qualifying header; the last block is sealed
\* at the end of the input and no accepted line after the first header is
\* lost or doubled.
C16_BlocksPartitionInput ==
  pc = "v5_done" =>
    blocks = [k \in 1..Cardinality(HeadersV5) |-> BlockFrom(HeaderAt(k))]

\* C16 witness: two headers, the first followed by a line, the second with
\* trailing content; both blocks are in the list.
C16_Witness ==
  /\ pc = "v5_done"
  /\ consumed = <<L_Id77, L_Japanese, L_Id2Sentence>>
  /\ Len(blocks) = 2
  /\ blocks[1].lines = <<L_Japanese>>
  /\ Len(blocks[2].lines) = 1

\* a continuation marker without its optional "＝": "-" and digits
MarkerOf(line) ==
  IF line # << >> /\ line[Len(line)] = "U+FF1D"
    THEN SubSeq(line, 1, Len(line) - 1)
    ELSE line

IsContinuation(line) ==
  /\ Len(MarkerOf(line)) >= 2
  /\ MarkerOf(line)[1] = "-"
  /\ \A i \in 2..Len(MarkerOf(line)) : MarkerOf(line)[i] \in Digits

\* the base of an identifier: what stands before its first dash
BaseOf(id) ==
  IF PositionsIn(id, {"-"}) = {} THEN id
  ELSE SubSeq(id, 1, SetMin(PositionsIn(id, {"-"})) - 1)

\* C17: in the V3 parser a bare continuation marker "-k" (with or without
\* "＝") that follows a sealed block opens a block whose identifier is the
\* base of the block sealed just before it, followed by the marker; the
\* sub-index does not become a base.
C17_ContinuationKeepsBase ==
  [][(pc = "v3_lines" /\ consumed' # consumed /\ IsContinuation(LineRead)
        /\ items' # << >>) =>
       /\ items' = Append(items, current_item)
       /\ current_item'.id = BaseOf(current_item.id) \o MarkerOf(LineRead)]_vars

\* C17 witness: after the block "2-1" the marker "-2" opened the block "2-2"
C17_Witness ==
  /\ pc = "v3_lines"
  /\ consumed = <<L_Id2, L_Sub2>>
  /\ ItemIds(items) = <<L_Id2>>
  /\ current_item.id = <<"2", "-", "2">>

\* the line holds a parenthesized span, empty or not, or an underscore
HasBlankMarker(l) ==
  \/ \E i, j \in 1..Len(l) : i < j /\ l[i] \in OpenParens /\ l[j] \in CloseParens
  \/ \E i \in 1..Len(l) : l[i] = "_"

\* the noise lines of V3: Tip, F-code, "Words to Use", "基本", Chapter header
IsNoiseV3(l) ==
  \/ startswith(l, S_Tip)
  \/ is_f_code(l)
  \/ startswith(l, S_WordsToUse)
  \/ l = S_Kihon
  \/ is_chapter_header(l)

\* the line starts with an identifier or is a continuation marker
IdPrefixed(l) == id_len(l) > 0 \/ IsContinuation(l)

\* C18: V3 classify_line returns QUESTION_LINE for every line that is not
\* empty, noise or identifier-prefixed and that holds a blank marker: a
\* parenthesized span, empty or not, or a run of underscores.
C18_BlankMarkerIsQuestion ==
  (/\ pc = "classified"
   /\ strip(line_arg) # << >>
   /\ ~IsNoiseV3(strip(line_arg))
   /\ ~IdPrefixed(strip(line_arg))
   /\ HasBlankMarker(strip(line_arg))) =>
    classified[1].kind = "QUESTION_LINE"

\* a step of the V3 parser or of the V5 segmentation pass that consumes a line
ConsumesLine ==
  /\ pc \in {"v3_lines", "v5_lines"}
  /\ Len(consumed') = Len(consumed) + 1

\* C19: a noise line (Tip, F-code, "Words to Use", "基本", Chapter header) is
\* dropped unconditionally: consuming it leaves the open block, the look-back
\* buffer and the item list unchanged, in the V3 parser and in the V5
\* segmentation pass.
C19_NoiseDropped ==
  [][(ConsumesLine /\ IsNoiseV3(LineRead)) =>
       UNCHANGED <<current_item, japanese_buffer, items, current_block, blocks>>]_vars

\* the open V4 block has taken its filled sentence: the answer phase is over
FilledSentenceTaken ==
  /\ pc = "v4_lines"
  /\ current_item # NoItem
  /\ current_item.en_full # << >>

\* C20: the native-language field is built only from native lines that
\* precede the first answer-phase line of the block: once the filled sentence
\* has been taken, no later line changes the field, neither while the block
\* stays open nor when save_current seals it.
C20_NativeFieldFixedAfterSentence ==
  [][FilledSentenceTaken =>
       IF Len(items') = Len(items) + 1
         THEN items'[Len(items')].ja = current_item.ja
         ELSE current_item'.id = current_item.id =>
                current_item'.ja = current_item.ja]_vars

\* the positions of the sentence terminator "。" in a text
Terminators(s) == {i \in 1..Len(s) : s[i] = "U+3002"}

\* C21: in the V6 extractor the native-language field of every emitted item
\* holds at most one "。", and if it holds one, that is its last character.
C21_NativeFieldOneSentence ==
  pc = "v6_done" =>
    \A i \in 1..Len(items) :
      /\ Cardinality(Terminators(items[i].ja)) <= 1
      /\ Terminators(items[i].ja) \subseteq {Len(items[i].ja)}

\* a block whose native paragraph goes on after its first "。" was emitted
C21_Witness ==
  /\ pc = "v6_done"
  /\ \E i \in 1..Len(blocks) : blocks[i].paras = <<P_Id17Japanese>>
  /\ \E i \in 1..Len(items) :
       /\ items[i].id = <<"1", "7">>
       /\ items[i].ja = <<"U+82B1", "U+306F", "U+3002">>

\* the first line of a block that holds the explanation marker, or 0
FirstMarkerLine(lines) ==
  IF \E k \in 1..Len(lines) : contains(lines[k], S_Arrow)
    THEN SetMin({k \in 1..Len(lines) : contains(lines[k], S_Arrow)})
    ELSE 0

\* the lines before the first marker and the text before it on its line
BeforeMarker(lines) ==
  LET k == FirstMarkerLine(lines)
      head == strip(slice(lines[k], 0, str_find(lines[k], S_Arrow)))
  IN  SubSeq(lines, 1, k - 1) \o (IF head = << >> THEN << >> ELSE <<head>>)

\* the marker with the text after it, and every later line of the block
FromMarker(lines) ==
  LET k == FirstMarkerLine(lines)
      rest == strip(slice(lines[k], str_find(lines[k], S_Arrow) + 1, Len(lines[k])))
  IN  <<S_Arrow \o <<" ">> \o rest>> \o SubSeq(lines, k + 1, Len(lines))

\* the first answer block of its identifier that holds a marker
MarkedAnswerBlock(i) ==
  /\ FirstMarkerLine(blocks[i].lines) > 0
  /\ \A j \in 1..(i - 1) :
       blocks[j].id = blocks[i].id => ~is_answer_block(blocks[j].lines)

\* C22: in a V5 answer block the text before the first marker is the filled
\* sentence, and the text from that marker on with every later line of the
\* block is the explanation, newline-joined in input order; no line after
\* the first marker contributes to the filled sentence.
C22_MarkerSplitsBlock ==
  pc = "v5_done" =>
    \A i \in 1..Len(blocks) :
      MarkedAnswerBlock(i) =>
        /\ answers[blocks[i].id] = strip(join(<<" ">>, BeforeMarker(blocks[i].lines)))
        /\ explanations[blocks[i].id] = strip(join(<<"\n">>, FromMarker(blocks[i].lines)))

\* the emphasized runs of the paragraphs of a block, in document order
RECURSIVE EmphasizedIn(_)
EmphasizedIn(runs) ==
  IF runs = << >> THEN << >>
  ELSE (IF is_colored(Head(runs)) THEN <<strip(Head(runs).text)>> ELSE << >>)
       \o EmphasizedIn(Tail(runs))

RECURSIVE EmphasizedRuns(_)
EmphasizedRuns(paras) ==
  IF paras = << >> THEN << >>
  ELSE EmphasizedIn(Head(paras)) \o EmphasizedRuns(Tail(paras))

\* the paragraphs of the block with identifier bid
ParasOf(bid) ==
  (CHOOSE b \in {blocks[i] : i \in 1..Len(blocks)} : b.id = bid).paras

\* C23: in the V6 extractor, whenever the paragraphs of a block carry an
\* emphasized run, the answer of the item is the join of exactly those runs
\* in document order, whatever blank markers the text holds.
C23_AnswerIsEmphasizedRuns ==
  pc = "v6_done" =>
    \A i \in 1..Len(items) :
      EmphasizedRuns(ParasOf(items[i].id)) # << >> =>
        items[i].answer = join(<<",", " ">>, EmphasizedRuns(ParasOf(items[i].id)))

\* the positions of the emitted items with identifier bid
ItemsWithId(bid) == {k \in 1..Len(items) : items[k].id = bid}

\* two separate blocks headed by the same identifier that are not a
\* question/answer pair: both are answer blocks with a filled sentence
DuplicateBlocks(i, j) ==
  /\ i < j
  /\ blocks[i].id = blocks[j].id
  /\ blocks[i].lines # << >>
  /\ blocks[j].lines # << >>
  /\ is_answer_block(blocks[i].lines)
  /\ is_answer_block(blocks[j].lines)

\* C24: when the same identifier heads two separate blocks that are not a
\* header/answer repetition pair, the V5 parser emits two separate items, the
\* item of the first block before the item of the second.
C24_DuplicatesEmittedSeparately ==
  pc = "v5_done" =>
    \A i, j \in 1..Len(blocks) :
      DuplicateBlocks(i, j) =>
        \E k, l \in ItemsWithId(blocks[i].id) : k < l

\* the item list the assembly builds when the identifier set is iterated in
\* the order all_ids
ItemsFor(all_ids) ==
  V5Assemble(sorted_by_key(all_ids),
             [answers |-> answers, questions |-> questions,
              explanations |-> explanations])

\* C25: the item list parse_chapter_text_v5 returns is the same for every
\* iteration order of the unordered identifier set, so two runs on identical
\* input return identical lists, also when two identifiers have equal sort
\* keys ("1" and "01").
C25_OrderIndependentOfSetIteration ==
  pc = "v5_done" =>
    \A all_ids \in ListsOf(DOMAIN answers \cup DOMAIN questions) :
      items = ItemsFor(all_ids)

\* the source file was written to the output file of its chapter number
WasWritten(name) ==
  \E o \in DOMAIN written : \E k \in 1..Len(written[o]) : written[o][k] = name

\* C26: a failure while extracting one document never aborts the batch:
\* when main ends, every document whose extraction did not fail has been
\* extracted and written, also those after a failing one, and the index has
\* been generated.
C26_FailureDoesNotAbortBatch ==
  pc = "main_done" =>
    /\ index_html # None
    /\ file_idx = Len(files)
    /\ \A k \in 1..Len(files) : files[k] \notin failed => WasWritten(files[k])

\* V6 ended after the extraction of a document failed and a later one was
\* written
C26_Witness ==
  /\ pc = "main_done"
  /\ script = "v6"
  /\ index_html # None
  /\ \E i, j \in 1..Len(files) :
       /\ i < j
       /\ files[i] \in failed
       /\ files[j] \notin failed
       /\ WasWritten(files[j])

\* C27: the index is written only after every document of the batch has
\* finished processing; no index exists while a document is being extracted
\* or written.
C27_IndexAfterAllDocuments ==
  index_html # None =>
    /\ file_idx = Len(files)
    /\ pc \notin {"main", "main_extract", "main_write"}

\* the index of a batch of three documents, one of them failed, was written
C27_Witness ==
  /\ index_html # None
  /\ Len(files) = 3
  /\ failed # {}
  /\ Len(generated_links) >= 2

\* the chapter number an index entry shows
EntryNumber(entry) == to_int(slice(entry.title, 8, Len(entry.title)))

\* C28: the entries of the generated index are in non-decreasing order of
\* chapter number, whatever the order in which the files were discovered.
C28_IndexSortedByChapter ==
  index_html # None =>
    \A i, j \in 1..Len(index_html[1]) :
      i < j => EntryNumber(index_html[1][i]) <= EntryNumber(index_html[1][j])

\* an index with the chapters 1, 2 and 10 was written
C28_Witness ==
  /\ index_html # None
  /\ Len(index_html[1]) = 3
  /\ EntryNumber(index_html[1][1]) = 1
  /\ EntryNumber(index_html[1][2]) = 2
  /\ EntryNumber(index_html[1][3]) = 10

\* C29: within one batch every document writes to its own output slot: no
\* two distinct source documents are written to the same chapter file.
C29_OneDocumentPerSlot ==
  \A o \in DOMAIN written :
    \A k, l \in 1..Len(written[o]) : written[o][k] = written[o][l]

\* the name holds a digit, full-width digits included
HasChapterNumber(name) ==
  \E i \in 1..Len(name) : nfkc(name[i]) \in Digits

\* C30: in the batch order a file name without a digit comes after every
\* file name that holds a chapter number, whatever that number is.
C30_UnnumberedSortsLast ==
  \A i, j \in 1..Len(files) :
    (HasChapterNumber(files[i]) /\ ~HasChapterNumber(files[j])) => i < j

\* parse_chapter_text on the lines alone: from fresh locals to the return
RECURSIVE AloneV4(_, _)
AloneV4(st, lines) ==
  IF lines = << >>
    THEN IF st.current_item # NoItem
           THEN save_current(st.current_item, st.pre_id_buffer, st.items)
           ELSE st.items
    ELSE AloneV4(V4Process(st, Head(lines)), Tail(lines))

\* the blocks parse_chapter_text_v5 collects on the lines alone
RECURSIVE AloneBlocksV5(_, _)
AloneBlocksV5(st, lines) ==
  IF lines = << >>
    THEN IF st.current_block # NoBlock
           THEN Append(st.blocks, st.current_block)
           ELSE st.blocks
    ELSE AloneBlocksV5(V5Collect(st, Head(lines)), Tail(lines))

\* parse_chapter_text_v5 on the lines alone, for some order of the id set
AloneV5(lines) ==
  LET acc == V5ProcessBlocks(
               AloneBlocksV5([blocks |-> << >>, current_block |-> NoBlock], lines))
      ids == DOMAIN acc.answers \cup DOMAIN acc.questions
  IN  {V5Assemble(sorted_by_key(all_ids), acc) : all_ids \in ListsOf(ids)}

\* C31: the item list a call returns for a document is the list the parser
\* returns for that document alone, whatever documents were parsed before:
\* no parser state survives from one call to the next (V4 and V5).
C31_CallsIndependent ==
  /\ pc = "v4_done" =>
       items = AloneV4([current_item |-> NoItem, state |-> "FIND_ID",
                        pre_id_buffer |-> << >>, items |-> << >>,
                        sealed |-> << >>], consumed)
  /\ pc = "v5_done" => items \in AloneV5(consumed)

\* a later call of the V4 parser returned an item
C31_Witness ==
  /\ pc = "v4_done"
  /\ file_idx >= 1
  /\ Len(items) >= 1

\* C32: in the V4 parser, once the filled sentence of the open block is set,
\* no later line changes it before the block is sealed; a later line that
\* begins with the same identifier neither overwrites it nor sends the state
\* machine back from EXPLANATION to POST_ID_SEARCH.
C32_FilledSentenceStable ==
  [][(FilledSentenceTaken /\ pc' = "v4_lines"
        /\ current_item' # NoItem /\ current_item'.id = current_item.id) =>
       /\ current_item'.en_full = current_item.en_full
       /\ state = "EXPLANATION" => state' # "POST_ID_SEARCH"]_vars

\* the sealed blocks that save_current turned into items, in order
EmittedBlocks ==
  SelectSeq(sealed, LAMBDA b : b.id # << >> /\ b.en_full # << >>)

\* C33: in the V4 parser, whenever find_answer_part returns a non-empty
\* answer for the question and filled sentence of an item, the emitted item
\* carries that answer and not "???", also when the raw filled sentence holds
\* runs of several whitespace characters.
C33_FoundAnswerEmitted ==
  pc = "v4_done" =>
    \A k \in 1..Len(EmittedBlocks) :
      LET ans == find_answer_part_v4(EmittedBlocks[k].question,
                                     EmittedBlocks[k].en_full)
      IN  (k <= Len(items) /\ ~IsNone(ans) /\ ans[1] # << >>) =>
            items[k].answer = ans[1]

\* C34: for every question and filled sentence, a result of V5
\* find_answer_part other than None is a contiguous substring of the
\* whitespace-normalized filled sentence.
C34_ResultIsSubstring ==
  (pc = "v5_returned" /\ ~IsNone(result)) =>
    contains(normalize(full_sentence), result[1])

\* the input lines consumed so far whose leading identifier is bid
LinesHeadedBy(bid) ==
  {i \in 1..Len(consumed) : HeaderId(strip(consumed[i])) = bid}

\* C35: in the V4 parser the identifier of every emitted item is the leading
\* identifier of at least two input lines, the header and its repetition: a
\* block whose identifier appears once never obtains a filled sentence.
C35_EmittedIdOccursTwice ==
  pc \in {"v4_lines", "v4_done"} =>
    \A k \in 1..Len(items) : Cardinality(LinesHeadedBy(items[k].id)) >= 2

\* an item was emitted whose identifier heads exactly two input lines
C35_Witness ==
  /\ pc = "v4_done"
  /\ \E k \in 1..Len(items) : Cardinality(LinesHeadedBy(items[k].id)) = 2

\* the string form "base" or "base-sub" with numeric base and sub-index
WellFormedId(id) ==
  LET dash == {i \in 1..Len(id) : id[i] = "-"}
  IN  /\ id # << >>
      /\ \A i \in 1..Len(id) : id[i] \in Digits \cup {"-"}
      /\ Cardinality(dash) <= 1
      /\ \A i \in dash : 1 < i /\ i < Len(id)

\* C36: in the V3 parser every emitted item has an identifier of the form
\* "base" or "base-sub": none is emitted with the provisional identifier
\* "PENDING", an identifier derived from it, or a bare sub-index.
C36_EmittedIdsWellFormed ==
  pc = "v3_done" =>
    \A k \in 1..Len(final_items) : WellFormedId(final_items[k].id)

\* a provisional item and an item derived from it were collected and
\* dropped, and a well-formed item was emitted
C36_Witness ==
  /\ pc = "v3_done"
  /\ \E i \in 1..Len(items) : items[i].id = S_Pending
  /\ \E i \in 1..Len(items) : ~WellFormedId(items[i].id) /\ items[i].id # S_Pending
  /\ final_items # << >>

\* the consumed lines the V4 parser recognises as identifier headers
HeaderLines ==
  {i \in 1..Len(consumed) :
     LET l == strip(consumed[i])
     IN  id_len(l) > 0 /\ Len(HeaderId(l)) < 6}

\* every line is consumed once and the items do not outnumber the headers
SinglePass ==
  pc \in {"v4_lines", "v4_done"} =>
    /\ nread = Len(consumed)
    /\ Len(items) <= Cardinality(HeaderLines)

\* C37: parsing one document with the V4 parser is a single pass that
\* terminates: each input line is consumed exactly once, the number of
\* emitted items never exceeds the number of lines recognised as identifier
\* headers, and the parser returns.
C37_SinglePassTerminates == []SinglePass /\ <>(pc = "v4_done")

\* the parser returned one item from four lines, two of them headers
C37_Witness ==
  /\ pc = "v4_done"
  /\ nread = 4
  /\ Len(items) = 1
  /\ Cardinality(HeaderLines) = 2

====
